---------------------------- MODULE Spec2Model ----------------------------
(* A model of the NEXUS voice-assistant shell: the SpeechSynthesis       *)
(* priority queue and its single-flight playback, the voice selection   *)
(* function, the DeviceManager's simulated device registry, and the     *)
(* SpeechRecognition session with its restart timer.                    *)
(* Each component has its own specification over the shared variables;  *)
(* the variables of the other components stay unchanged.                *)
EXTENDS Integers, Sequences, FiniteSets, TLC

\* ------------------------------------------------------------------ bounds
\* Number of speak() calls with non-empty text in one behaviour.
MaxRequests == 4
\* The same, in the behaviours checked for liveness.
FairRequests == 3
\* Longest voice list the host reports.
MaxVoices == 2
\* Host recognition errors delivered without a 'start' event in between.
\* custom patterns added with addCustomPattern
MaxCustomPatterns == 1

\* callbacks registered with one emitter
MaxListeners == 3

\* tasks given to addTask
MaxTasks == 6
MaxClock == 1

MaxErrorCount == 6

\* Priorities passed to speak(): zero, the default 1, and a higher one.
Priorities == {0, 1, 2}

\* currentUtterance = null
NoUtterance == 0

VARIABLES
    \* ---- SpeechSynthesis (src/unnamed/part_009)
    speechQueue,      \* pending SpeechRequest records, head first
    isPlaying,        \* the isPlaying flag
    currentUtterance, \* id of the utterance last created, or NoUtterance
    hostAvailable,    \* whether window.speechSynthesis exists
    hostState,        \* per request id: the host's view of its utterance
    micro,            \* processQueue calls whose promise settled, continuation pending
    timers,           \* number of pending setTimeout(processQueue, 100)
    nextId,           \* id the next accepted request gets
    played,           \* history: the requests in the order they were dequeued,
                      \*   each with the number of requests accepted by then
    discarded,        \* history: ids dropped from the queue by stopSpeaking
    lastOp,           \* history: the last operation that ran
    \* ---- voice selection (src/unnamed/part_009)
    voices,           \* this.voices
    language,         \* the language tag last asked for (empty: none yet)
    selected,         \* index in voices of the voice returned, 0 for null
    \* ---- DeviceManager (src/unnamed/part_007)
    devices,          \* id -> Device record, for the registered ids
    deviceStates,     \* id -> DeviceState record
    lastResult,       \* what the last controlDevice returned
    lastCall,         \* history: the last DeviceManager call and its target
    adjustedOnly,     \* history: lights that got only dim/brighten since they were added
    discoveryInterval,\* whether the discovery timer is set
    now,              \* Date.now(), in ticks of the model's clock
    emitted,          \* history: the events the last DeviceManager call emitted
    \* ---- SpeechRecognition (src/src/core/speechRecognition.ts)
    recognition,      \* whether this.recognition is set (initialize() succeeded)
    isRecognizing,    \* the isRecognizing flag
    restartTimeout,   \* whether this.restartTimeout holds a timer handle
    restartTimer,     \* delay of the pending restart timer, NoTimer if none
    errorCount,       \* this.errorCount
    autoRestart,      \* config speechRecognition.autoRestart
    hostRec,          \* the host recognizer's session: idle, starting, running,
                      \*   stopping (stop() called), ending (error delivered)
    recLast,          \* history: the last SpeechRecognition step and what it did
    stopped,          \* history: stopRecognition() returned, no startRecognition() since
    fatal,            \* history: permission error delivered, no startRecognition() since
    sinceNetwork,     \* history: 'network' error delivered, host start() not
                      \*   invoked since
    oldRec,           \* the session of the recognizer that initialize() replaced
    \* ---- SmartVoiceAssistant (src/src/main.ts)
    isActive,         \* the isActive flag
    minConfidence,    \* config minConfidence, in tenths
    turn,             \* history: the last call on the assistant: what it
                      \*   reached, what it spoke, whether it threw
    \* ---- LanguageProcessing (src/src/features/performanceEnhancer.ts)
    lpCommands,       \* the commands given to processCommand
    lpResults,        \* the ProcessingResult of each, empty before the calls
    \* ---- LanguageProcessing, one call step by step
    addedPatterns,    \* what addCustomPattern has added to this.intentPatterns
    addedEntities,    \* what addCustomEntity has set in this.entityPatterns:
                      \*   the tables are the constructor's with these applied
    lpPc,             \* where the processCommand call stands: idle (none yet),
                      \*   exec (at regex.exec), push (in the loop body), done
    lpText,           \* the text extractEntities goes through
    lpEntry,          \* the entry of entityPatterns the for loop is at
    lastIndex,        \* regex.lastIndex
    lpIntent,         \* the intent extractIntent found for the call
    \* ---- ConfigManager (src/src/main.ts)
    config,           \* this.config
    defaultConfig,    \* this.defaultConfig
    shared,           \* the keys whose value is one object in config and in
                      \*   defaultConfig (a shallow copy copies the reference)
    cfgLast,          \* history: the last ConfigManager call, the
                      \*   configuration before it and the text imported
    \* ---- EventEmitter (src/unnamed/part_006)
    callbacks,        \* this.events.get(event): the listeners, in the order
                      \*   they were registered
    nextListener,     \* id the next callback registered gets
    emitLast,         \* history: the last emit(): the listeners before it,
                      \*   those invoked, those that threw, those removed
                      \*   during it, whether the error left emit, those
                      \*   invoked by any emit so far (ever) and those of
                      \*   them this emit invoked again
    \* ---- ResponsivenessOptimizer (src/unnamed/part_008)
    taskQueue,        \* this.taskQueue: the tasks waiting, as id and priority
    isProcessing,     \* the isProcessing flag
    running,          \* the tasks started whose promise has not settled
    awaited,          \* the tasks of the batch Promise.all still waits for
    batchPc,          \* processTasksInParallel: idle, awaiting (at its await)
                      \*   or settled (Promise.all settled, finally to run)
    taskTimers,       \* number of pending setTimeout(enableParallelProcessing, 10)
    nextTask,         \* id the next task added gets
    queueLength       \* metrics.queueLength, as updateMetrics() last set it

synthVars == <<speechQueue, isPlaying, currentUtterance, hostAvailable, hostState,
               micro, timers, nextId, played, discarded, lastOp>>
voiceVars == <<voices, language, selected>>
deviceVars == <<devices, deviceStates, lastResult, lastCall, adjustedOnly,
                discoveryInterval, emitted>>
recognitionVars == <<recognition, isRecognizing, restartTimeout, restartTimer,
                     errorCount, autoRestart, hostRec, recLast, stopped, fatal,
                     sinceNetwork>>
assistantVars == <<isActive, minConfidence, turn>>
languageVars == <<lpCommands, lpResults>>
customVars == <<addedPatterns, addedEntities, lpPc, lpText, lpEntry, lastIndex,
                lpIntent>>
configVars == <<config, defaultConfig, shared, cfgLast>>
emitterVars == <<callbacks, nextListener, emitLast>>
taskVars == <<taskQueue, isProcessing, running, awaited, batchPc, taskTimers, nextTask,
             queueLength>>
replacedVars == <<oldRec>>
clockVars == <<now>>
vars == <<synthVars, voiceVars, deviceVars, recognitionVars, assistantVars,
          languageVars, customVars, configVars, emitterVars, taskVars,
          replacedVars, clockVars>>

\* the variables a component's operations leave alone
rest == <<customVars, configVars, emitterVars, taskVars, replacedVars, clockVars>>
others == <<languageVars, rest>>
notSynth == <<voiceVars, deviceVars, recognitionVars, assistantVars, others>>
notVoice == <<synthVars, deviceVars, recognitionVars, assistantVars, others>>
notDevice == <<synthVars, voiceVars, recognitionVars, assistantVars, others>>
notRecognition == <<synthVars, voiceVars, deviceVars, assistantVars, others>>
notAssistant == <<synthVars, voiceVars, recognitionVars, others>>
notLanguage == <<synthVars, voiceVars, deviceVars, recognitionVars, assistantVars,
                 rest>>
notCustom == <<synthVars, voiceVars, deviceVars, recognitionVars, assistantVars,
               languageVars, configVars, emitterVars, taskVars, replacedVars,
               clockVars>>
notConfig == <<synthVars, voiceVars, deviceVars, recognitionVars, assistantVars,
               languageVars, customVars, emitterVars, taskVars, replacedVars,
               clockVars>>
notEmitter == <<synthVars, voiceVars, deviceVars, recognitionVars, assistantVars,
                languageVars, customVars, configVars, taskVars, replacedVars,
               clockVars>>
notTask == <<synthVars, voiceVars, deviceVars, recognitionVars, assistantVars,
             languageVars, customVars, configVars, emitterVars, replacedVars,
               clockVars>>

Ids == 1..MaxRequests

\* ------------------------------------------------- SpeechSynthesis queue

Range(s) == {s[i] : i \in 1..Len(s)}

\* item.priority || 1 : a stored priority of 0 is falsy and reads as 1
EffPriority(p) == IF p = 0 THEN 1 ELSE p

\* mutant: <= in place of <, a new request overtakes its equals
FindInsertIndexLe(q, priority) ==
    LET hits == {i \in 1..Len(q) : EffPriority(q[i].priority) <= priority}
    IN  IF hits = {} THEN 0 ELSE CHOOSE i \in hits : \A j \in hits : i <= j

\* speechQueue.findIndex(item => (item.priority || 1) < priority), 1-based;
\* 0 stands for -1 (no such item)
FindInsertIndex(q, priority) ==
    LET hits == {i \in 1..Len(q) : EffPriority(q[i].priority) < priority}
    IN  IF hits = {} THEN 0 ELSE CHOOSE i \in hits : \A j \in hits : i <= j

\* push when no index was found, splice(insertIndex, 0, request) otherwise
InsertRequest(q, request) ==
    LET insertIndex == FindInsertIndex(q, request.priority)
    IN  IF insertIndex = 0
        THEN Append(q, request)
        ELSE SubSeq(q, 1, insertIndex - 1) \o <<request>> \o SubSeq(q, insertIndex, Len(q))

\* mutant: the finally block schedules no drain
NoDrainTimers(q) == timers

\* the finally block's "if (this.speechQueue.length > 0) setTimeout(...)"
DrainTimers(q) == IF Len(q) > 0 THEN timers + 1 ELSE timers

\* processQueue() up to its await, run on queue q (the queue as the caller
\* left it, `accepted` requests accepted so far): returns at once when playing or empty, else shifts the head,
\* sets isPlaying and calls speakText, which hands the utterance to the
\* host or, without a host, resolves at once.
ProcessQueue(q, accepted) ==
    IF isPlaying \/ Len(q) = 0
    THEN /\ speechQueue' = q
         /\ UNCHANGED <<isPlaying, currentUtterance, hostState, micro, played>>
    ELSE LET request == Head(q)
         IN  /\ speechQueue' = Tail(q)
             /\ isPlaying' = TRUE
             /\ played' = Append(played, [id |-> request.id, priority |-> request.priority,
                                          accepted |-> accepted])
             /\ IF hostAvailable
                THEN /\ currentUtterance' = request.id
                     /\ hostState' = [hostState EXCEPT ![request.id] = "active"]
                     /\ UNCHANGED micro
                ELSE /\ micro' = micro \cup {request.id}
                     /\ UNCHANGED <<currentUtterance, hostState>>

\* processQueue() after its await: catch logs, finally clears isPlaying and
\* schedules the next drain when the queue is not empty.
AfterAwait ==
    /\ isPlaying' = FALSE
    /\ timers' = DrainTimers(speechQueue)

\* speak(text, language, priority) with text.trim() empty: warn and return
SpeakEmpty ==
    /\ lastOp' = "speakEmpty"
    /\ UNCHANGED <<notSynth, speechQueue, isPlaying, currentUtterance, hostAvailable, hostState,
                   micro, timers, nextId, played, discarded>>

\* speak(text, language, priority) with text to say
Speak(priority) ==
    /\ LET request == [id |-> nextId, priority |-> priority]
       IN  ProcessQueue(InsertRequest(speechQueue, request), nextId)
    /\ nextId' = nextId + 1
    /\ lastOp' = "speak"
    /\ UNCHANGED <<notSynth, hostAvailable, timers, discarded>>

\* the host's cancel(): every utterance it holds is dropped; each still gets
\* its end/error callback later
HostCancel == [i \in Ids |-> IF hostState[i] = "active" THEN "cancelled" ELSE hostState[i]]

\* mutant: stopSpeaking() that cancels the host but keeps the queue
StopSpeakingKeepsQueue ==
    /\ hostState' = IF hostAvailable THEN HostCancel ELSE hostState
    /\ isPlaying' = FALSE
    /\ currentUtterance' = NoUtterance
    /\ discarded' = discarded \cup {speechQueue[i].id : i \in 1..Len(speechQueue)}
    /\ lastOp' = "stop"
    /\ UNCHANGED <<notSynth, speechQueue, hostAvailable, micro, timers, nextId, played>>

\* stopSpeaking()
StopSpeaking ==
    /\ hostState' = IF hostAvailable THEN HostCancel ELSE hostState
    /\ speechQueue' = <<>>
    /\ isPlaying' = FALSE
    /\ currentUtterance' = NoUtterance
    /\ discarded' = discarded \cup {speechQueue[i].id : i \in 1..Len(speechQueue)}
    /\ lastOp' = "stop"
    /\ UNCHANGED <<notSynth, hostAvailable, micro, timers, nextId, played>>

\* utterance.onend: resolve(), then the awaiting processQueue continues
OnEnd(id) ==
    /\ micro = {}
    /\ hostState[id] \in {"active", "cancelled"}
    /\ hostState' = [hostState EXCEPT ![id] = "done"]
    /\ AfterAwait
    /\ lastOp' = "end"
    /\ UNCHANGED <<notSynth, speechQueue, currentUtterance, hostAvailable, micro, nextId, played,
                   discarded>>

\* utterance.onerror: reject(), caught and logged, then the finally block
OnError(id) ==
    /\ micro = {}
    /\ hostState[id] \in {"active", "cancelled"}
    /\ hostState' = [hostState EXCEPT ![id] = "done"]
    /\ AfterAwait
    /\ lastOp' = "error"
    /\ UNCHANGED <<notSynth, speechQueue, currentUtterance, hostAvailable, micro, nextId, played,
                   discarded>>

\* without a host speakText resolved at once: the continuation of
\* processQueue runs as a microtask, after the calling code
Continue(id) ==
    /\ id \in micro
    /\ micro' = micro \ {id}
    /\ AfterAwait
    /\ lastOp' = "continue"
    /\ UNCHANGED <<notSynth, speechQueue, currentUtterance, hostAvailable, hostState, nextId, played,
                   discarded>>

\* the 100 ms drain timer: () => this.processQueue()
TimerFire ==
    /\ micro = {}
    /\ timers > 0
    /\ timers' = timers - 1
    /\ ProcessQueue(speechQueue, nextId - 1)
    /\ lastOp' = "timer"
    /\ UNCHANGED <<notSynth, hostAvailable, nextId, discarded>>

SynthInit ==
    /\ speechQueue = <<>>
    /\ isPlaying = FALSE
    /\ currentUtterance = NoUtterance
    /\ hostAvailable \in BOOLEAN
    /\ hostState = [i \in Ids |-> "none"]
    /\ micro = {}
    /\ timers = 0
    /\ nextId = 1
    /\ played = <<>>
    /\ discarded = {}
    /\ lastOp = "init"

\* ------------------------------------------------------- voice selection

\* language tags as the strings they are, character by character
EnUS == <<"e", "n", "-", "U", "S">>
EnGB == <<"e", "n", "-", "G", "B">>
EnAU == <<"e", "n", "-", "A", "U">>
FrFR == <<"f", "r", "-", "F", "R">>
DeDE == <<"d", "e", "-", "D", "E">>

\* tags of the voices the host may report, and tags a caller may ask for
VoiceTags == {EnGB, EnAU, FrFR}
LanguageTags == {EnUS, EnGB, EnAU, FrFR, DeDE}

Voices == [lang : VoiceTags, localService : BOOLEAN]

RECURSIVE SeqsUpTo(_, _)
SeqsUpTo(S, n) ==
    IF n = 0 THEN {<<>>}
    ELSE LET shorter == SeqsUpTo(S, n - 1)
         IN  shorter \cup {Append(q, x) : q \in shorter, x \in S}

VoiceLists == SeqsUpTo(Voices, MaxVoices)

\* language.split('-')[0]
PrimarySubtag(tag) ==
    LET dashes == {i \in 1..Len(tag) : tag[i] = "-"}
    IN  IF dashes = {} THEN tag
        ELSE SubSeq(tag, 1, (CHOOSE i \in dashes : \A j \in dashes : i <= j) - 1)

\* s.startsWith(prefix)
StartsWith(s, prefix) ==
    Len(prefix) <= Len(s) /\ SubSeq(s, 1, Len(prefix)) = prefix

\* Array.prototype.find: the first of the indices that pass the test, 0 for none
FindVoice(hits) ==
    IF hits = {} THEN 0 ELSE CHOOSE i \in hits : \A j \in hits : i <= j

\* getBestVoiceForLanguage(language): index of the voice returned, 0 for null
GetBestVoiceForLanguage(vs, lang) ==
    LET exact == FindVoice({i \in 1..Len(vs) : vs[i].lang = lang})
        byCode == FindVoice({i \in 1..Len(vs) : StartsWith(vs[i].lang, PrimarySubtag(lang))})
        voice == IF exact # 0 THEN exact ELSE byCode
        localVoice == FindVoice({i \in 1..Len(vs) :
                                    vs[i].lang = vs[voice].lang /\ vs[i].localService})
    IN  IF Len(vs) = 0 THEN 0
        ELSE IF voice = 0 THEN 0
        ELSE IF localVoice # 0 THEN localVoice ELSE voice

\* loadVoices, at construction and on the host's voiceschanged event
LoadVoices(vs) ==
    /\ voices' = vs
    /\ language' = <<>>
    /\ selected' = 0
    /\ UNCHANGED notVoice

\* speakText choosing the voice of an utterance in language lang
SelectVoice(lang) ==
    /\ language' = lang
    /\ selected' = GetBestVoiceForLanguage(voices, lang)
    /\ UNCHANGED <<voices, notVoice>>

VoiceInit ==
    /\ voices \in VoiceLists
    /\ language = <<>>
    /\ selected = 0

\* --------------------------------------------------------- DeviceManager

DefaultDevices ==
    [id \in {"living_room-light", "bedroom-light", "kitchen-light", "main-thermostat",
             "living_room-tv", "kitchen-speaker"} |->
        [type |-> CASE id = "main-thermostat" -> "thermostat"
                    [] id = "living_room-tv" -> "smart_tv"
                    [] id = "kitchen-speaker" -> "smart_speaker"
                    [] OTHER -> "smart_light",
         status |-> "online"]]

\* getDefaultProperties(deviceType)
GetDefaultProperties(deviceType) ==
    CASE deviceType = "smart_light" -> [brightness |-> 100, color |-> "white", power |-> TRUE]
      [] deviceType = "thermostat" -> [temperature |-> 72, mode |-> "auto", target |-> 72]
      [] deviceType = "smart_tv" -> [power |-> FALSE, volume |-> 50, channel |-> 1]
      [] deviceType = "smart_speaker" -> [power |-> TRUE, volume |-> 30, playing |-> FALSE]
      [] OTHER -> [x \in {} |-> 0]

\* the DeviceState addDevice and the constructor create
NewState(deviceType) ==
    [status |-> "online", properties |-> GetDefaultProperties(deviceType),
     lastSeen |-> now]

Min(a, b) == IF a < b THEN a ELSE b
Max(a, b) == IF a > b THEN a ELSE b

\* parameters?.field || default : absent and 0 both give the default
OrElse(parameters, field, default) ==
    IF field \in DOMAIN parameters /\ parameters[field] # 0
    THEN parameters[field] ELSE default

\* properties.field = value, also for a field the map does not have yet
SetProperty(properties, field, value) ==
    [x \in DOMAIN properties \cup {field} |-> IF x = field THEN value ELSE properties[x]]

\* a handler's result: the Response's success and the properties it leaves
Result(success, properties) == [success |-> success, properties |-> properties]

\* Math.max(10, brightness - 20)
Dim(brightness) == Max(10, brightness - 20)

\* mutant: brighten without its ceiling
BrightenNoCeiling(brightness) == brightness + 20

\* Math.min(100, brightness + 20)
Brighten(brightness) == Min(100, brightness + 20)

\* controlLight(deviceState, command)
ControlLight(props, action, parameters) ==
    CASE action = "turn_on" ->
            Result(TRUE, SetProperty(SetProperty(props, "power", TRUE),
                                     "brightness", OrElse(parameters, "brightness", 100)))
      [] action = "turn_off" -> Result(TRUE, SetProperty(props, "power", FALSE))
      [] action = "dim" -> Result(TRUE, SetProperty(props, "brightness", Dim(props.brightness)))
      [] action = "brighten" ->
            Result(TRUE, SetProperty(props, "brightness", Brighten(props.brightness)))
      [] action = "set_brightness" ->
            Result(TRUE, SetProperty(props, "brightness",
                                     Max(0, Min(100, OrElse(parameters, "value", 50)))))
      [] OTHER -> Result(FALSE, props)

\* mutant: increase and decrease without their bounds
ControlThermostatUnbounded(props, action, parameters) ==
    CASE action \in {"set_temperature", "set_value"} ->
            Result(TRUE, SetProperty(props, "target",
                Max(50, Min(90, OrElse(parameters, "value",
                                       OrElse(parameters, "temperature", 72))))))
      [] action = "increase" -> Result(TRUE, SetProperty(props, "target", props.target + 2))
      [] action = "decrease" -> Result(TRUE, SetProperty(props, "target", props.target - 2))
      [] OTHER -> Result(FALSE, props)

\* controlThermostat(deviceState, command)
ControlThermostat(props, action, parameters) ==
    CASE action \in {"set_temperature", "set_value"} ->
            Result(TRUE, SetProperty(props, "target",
                Max(50, Min(90, OrElse(parameters, "value",
                                       OrElse(parameters, "temperature", 72))))))
      [] action = "increase" -> Result(TRUE, SetProperty(props, "target", Min(90, props.target + 2)))
      [] action = "decrease" -> Result(TRUE, SetProperty(props, "target", Max(50, props.target - 2)))
      [] OTHER -> Result(FALSE, props)

\* controlTV(deviceState, command)
ControlTV(props, action, parameters) ==
    CASE action = "turn_on" -> Result(TRUE, SetProperty(props, "power", TRUE))
      [] action = "turn_off" -> Result(TRUE, SetProperty(props, "power", FALSE))
      [] action \in {"volume_up", "increase"} ->
            Result(TRUE, SetProperty(props, "volume", Min(100, props.volume + 5)))
      [] action \in {"volume_down", "decrease"} ->
            Result(TRUE, SetProperty(props, "volume", Max(0, props.volume - 5)))
      [] OTHER -> Result(FALSE, props)

\* controlSpeaker(deviceState, command)
ControlSpeaker(props, action, parameters) ==
    CASE action \in {"start", "play"} -> Result(TRUE, SetProperty(props, "playing", TRUE))
      [] action \in {"stop", "pause"} -> Result(TRUE, SetProperty(props, "playing", FALSE))
      [] action \in {"volume_up", "increase"} ->
            Result(TRUE, SetProperty(props, "volume", Min(100, props.volume + 10)))
      [] action \in {"volume_down", "decrease"} ->
            Result(TRUE, SetProperty(props, "volume", Max(0, props.volume - 10)))
      [] OTHER -> Result(FALSE, props)

\* controlGenericDevice(deviceState, command)
ControlGenericDevice(props, action, parameters) ==
    CASE action = "turn_on" -> Result(TRUE, SetProperty(props, "power", TRUE))
      [] action = "turn_off" -> Result(TRUE, SetProperty(props, "power", FALSE))
      [] OTHER -> Result(TRUE, props)

\* executeDeviceCommand(device, command): dispatch on the device's type
ExecuteDeviceCommand(deviceType, props, action, parameters) ==
    CASE deviceType = "smart_light" -> ControlLight(props, action, parameters)
      [] deviceType = "thermostat" -> ControlThermostat(props, action, parameters)
      [] deviceType = "smart_tv" -> ControlTV(props, action, parameters)
      [] deviceType = "smart_speaker" -> ControlSpeaker(props, action, parameters)
      [] OTHER -> ControlGenericDevice(props, action, parameters)

\* mutant: the check of the device's status left out
ControllableUnchecked(deviceId) == deviceId \in DOMAIN devices

\* controlDevice's two early returns: the device is registered and its
\* DeviceState is online
Controllable(deviceId) ==
    /\ deviceId \in DOMAIN devices
    /\ deviceId \in DOMAIN deviceStates
    /\ deviceStates[deviceId].status = "online"

\* mutant: the event is emitted for successful commands only
DeviceControlledOnSuccess(deviceId, response) ==
    IF response.success
    THEN <<[name |-> "deviceControlled", deviceId |-> deviceId, success |-> TRUE]>>
    ELSE <<>>

\* this.eventEmitter.emit('deviceControlled', {deviceId, success, message})
DeviceControlled(deviceId, response) ==
    <<[name |-> "deviceControlled", deviceId |-> deviceId, success |-> response.success]>>

\* controlDevice(deviceId, action, parameters), as a call made by any caller
ControlDeviceCall(deviceId, action, parameters) ==
    /\ lastCall' = [op |-> "controlDevice", target |-> deviceId]
    /\ IF ~Controllable(deviceId)
       THEN /\ lastResult' = FALSE
            /\ emitted' = <<>>
            /\ UNCHANGED <<devices, deviceStates, adjustedOnly>>
       ELSE LET response == ExecuteDeviceCommand(devices[deviceId].type,
                                deviceStates[deviceId].properties, action, parameters)
            IN  /\ deviceStates' = [deviceStates EXCEPT ![deviceId].properties = response.properties]
                /\ emitted' = DeviceControlled(deviceId, response)
                /\ lastResult' = response.success
                /\ adjustedOnly' = IF response.success /\ action \notin {"dim", "brighten"}
                                   THEN adjustedOnly \ {deviceId} ELSE adjustedOnly
                /\ UNCHANGED devices
    /\ UNCHANGED discoveryInterval

\* controlDevice(deviceId, action, parameters) called on the DeviceManager alone
ControlDevice(deviceId, action, parameters) ==
    /\ ControlDeviceCall(deviceId, action, parameters)
    /\ UNCHANGED notDevice

\* a discovery that refreshes lastSeen of every device
DiscoverDevicesRefreshAll(online) ==
    /\ discoveryInterval
    /\ deviceStates' = [id \in DOMAIN deviceStates |->
            [deviceStates[id] EXCEPT
                !.status = IF id \in online THEN "online" ELSE "offline",
                !.lastSeen = now]]
    /\ lastCall' = [op |-> "discoverDevices", target |-> ""]
    /\ emitted' = <<>>
    /\ UNCHANGED <<devices, lastResult, adjustedOnly, discoveryInterval, notDevice>>

\* time passes
Tick ==
    /\ now < MaxClock
    /\ now' = now + 1
    /\ UNCHANGED <<synthVars, voiceVars, deviceVars, recognitionVars, assistantVars,
                   languageVars, customVars, configVars, emitterVars, taskVars,
                   replacedVars>>

\* the discovery timer's tick, discoverDevices(): every device state is
\* independently found online or offline (Math.random() > 0.1); `online` is
\* the set found online
DiscoverDevices(online) ==
    /\ discoveryInterval
    /\ deviceStates' = [id \in DOMAIN deviceStates |->
            [deviceStates[id] EXCEPT
                !.status = IF id \in online THEN "online" ELSE "offline",
                !.lastSeen = IF id \in online THEN now ELSE @]]
    /\ lastCall' = [op |-> "discoverDevices", target |-> ""]
    /\ emitted' = <<>>
    /\ UNCHANGED <<devices, lastResult, adjustedOnly, discoveryInterval, notDevice>>

\* addDevice(device)
AddDevice(deviceId, deviceType) ==
    /\ devices' = [id \in DOMAIN devices \cup {deviceId} |->
            IF id = deviceId THEN [type |-> deviceType, status |-> "online"] ELSE devices[id]]
    /\ deviceStates' = [id \in DOMAIN deviceStates \cup {deviceId} |->
            IF id = deviceId THEN NewState(deviceType) ELSE deviceStates[id]]
    /\ adjustedOnly' = IF deviceType = "smart_light" THEN adjustedOnly \cup {deviceId}
                       ELSE adjustedOnly \ {deviceId}
    /\ lastCall' = [op |-> "addDevice", target |-> deviceId]
    /\ emitted' = <<>>
    /\ UNCHANGED <<lastResult, discoveryInterval, notDevice>>

\* removeDevice(deviceId)
RemoveDevice(deviceId) ==
    /\ lastCall' = [op |-> "removeDevice", target |-> deviceId]
    /\ IF deviceId \in DOMAIN devices
       THEN /\ devices' = [id \in DOMAIN devices \ {deviceId} |-> devices[id]]
            /\ deviceStates' = [id \in DOMAIN deviceStates \ {deviceId} |-> deviceStates[id]]
            /\ adjustedOnly' = adjustedOnly \ {deviceId}
       ELSE UNCHANGED <<devices, deviceStates, adjustedOnly>>
    /\ emitted' = <<>>
    /\ UNCHANGED <<lastResult, discoveryInterval, notDevice>>

\* destroy(): clearInterval, both maps cleared
Destroy ==
    /\ discoveryInterval' = FALSE
    /\ devices' = <<>>
    /\ deviceStates' = <<>>
    /\ adjustedOnly' = {}
    /\ lastCall' = [op |-> "destroy", target |-> ""]
    /\ emitted' = <<>>
    /\ UNCHANGED <<lastResult, notDevice>>

\* the state the constructor leaves: the default devices with their default
\* properties, the discovery timer set, and the first discovery pass done,
\* which found each device online or offline
DeviceInit ==
    /\ now = 0
    /\ devices = DefaultDevices
    /\ \E online \in SUBSET DOMAIN DefaultDevices :
          deviceStates = [id \in DOMAIN DefaultDevices |->
              [NewState(DefaultDevices[id].type) EXCEPT
                  !.status = IF id \in online THEN "online" ELSE "offline"]]
    /\ lastResult = FALSE
    /\ lastCall = [op |-> "constructor", target |-> ""]
    /\ adjustedOnly = {id \in DOMAIN DefaultDevices : DefaultDevices[id].type = "smart_light"}
    /\ discoveryInterval = TRUE
    /\ emitted = <<>>

\* ---------------------------------------------------- SpeechRecognition

\* private maxErrors: number = 5
maxErrors == 5
\* restartTimeout's timer not pending
NoTimer == 0
\* scheduleRestart(delay = 1000)
DefaultDelay == 1000
\* scheduleRestart(5000) of the 'network' case
NetworkDelay == 5000

\* event.error of the host's error event; "aborted" stands for every code
\* the switch sends to its default case
ErrorCodes == {"no-speech", "audio-capture", "not-allowed", "network", "aborted"}
PermissionCodes == {"audio-capture", "not-allowed"}
TransientCodes == {"no-speech", "network"}

\* what a step did: whether it invoked the host's start(), the events it
\* emitted on the bus, the delay of the restart it scheduled
Step(op, code, started, emits, scheduled) ==
    [op |-> op, code |-> code, started |-> started, emitted |-> emits,
     scheduled |-> scheduled]

\* scheduleRestart(delay): the pending timer, if any, is replaced
ScheduleRestart(delay) ==
    /\ restartTimeout' = TRUE
    /\ restartTimer' = delay

\* startRecognition() that only checks this.recognition
CanStartUnchecked == recognition

\* the two early returns of startRecognition()
CanStart == recognition /\ ~isRecognizing

\* the body of startRecognition(), called by op: past the early returns the
\* host's start() is invoked; on a recognizer that is not idle it throws
\* InvalidStateError, which is caught and emitted as 'error'
StartBody(op) ==
    IF CanStart
    THEN /\ hostRec' = IF hostRec = "idle" THEN "starting" ELSE hostRec
         /\ recLast' = Step(op, "", TRUE,
                            IF hostRec = "idle" THEN {} ELSE {"error"}, NoTimer)
         /\ sinceNetwork' = FALSE
    ELSE /\ UNCHANGED <<hostRec, sinceNetwork>>
         /\ recLast' = Step(op, "", FALSE, {}, NoTimer)

\* initialize(): throws when the host has no recognizer
Initialize(supported) ==
    /\ ~recognition
    /\ recognition' = supported
    /\ recLast' = Step("initialize", IF supported THEN "" ELSE "throws", FALSE, {}, NoTimer)
    /\ UNCHANGED <<isRecognizing, restartTimeout, restartTimer, errorCount,
                   autoRestart, hostRec, stopped, fatal, sinceNetwork, notRecognition>>

\* startRecognition() called by the application
StartRecognition ==
    /\ StartBody("startRecognition")
    /\ stopped' = FALSE
    /\ fatal' = FALSE
    /\ UNCHANGED <<recognition, isRecognizing, restartTimeout, restartTimer,
                   errorCount, autoRestart, notRecognition>>

\* stopRecognition(): the timer is cleared, the host's stop() is called on
\* a session that fired 'start'; isRecognizing is left to onend
StopRecognition ==
    /\ restartTimeout' = FALSE
    /\ restartTimer' = NoTimer
    /\ hostRec' = IF recognition /\ isRecognizing /\ hostRec = "running"
                  THEN "stopping" ELSE hostRec
    /\ recLast' = Step("stopRecognition", "", FALSE, {}, NoTimer)
    /\ stopped' = TRUE
    /\ UNCHANGED <<recognition, isRecognizing, errorCount, autoRestart, fatal,
                   sinceNetwork, notRecognition>>

\* recognition.onstart
HostStart ==
    /\ hostRec = "starting"
    /\ hostRec' = "running"
    /\ isRecognizing' = TRUE
    /\ errorCount' = 0
    /\ recLast' = Step("onstart", "", FALSE, {}, NoTimer)
    /\ UNCHANGED <<recognition, restartTimeout, restartTimer, autoRestart,
                   stopped, fatal, sinceNetwork, notRecognition>>

\* onend that schedules no restart
HostEndNoRestart ==
    /\ hostRec \in {"running", "stopping", "ending"}
    /\ hostRec' = "idle"
    /\ isRecognizing' = FALSE
    /\ recLast' = Step("onend", "", FALSE, {}, NoTimer)
    /\ UNCHANGED <<recognition, restartTimeout, restartTimer, errorCount,
                   autoRestart, stopped, fatal, sinceNetwork, notRecognition>>

\* recognition.onend: the session is over, by itself, after stop() or after
\* an error
HostEnd ==
    /\ hostRec \in {"running", "stopping", "ending"}
    /\ hostRec' = "idle"
    /\ isRecognizing' = FALSE
    /\ IF autoRestart /\ errorCount < maxErrors
       THEN /\ ScheduleRestart(DefaultDelay)
            /\ recLast' = Step("onend", "", FALSE, {}, DefaultDelay)
       ELSE /\ UNCHANGED <<restartTimeout, restartTimer>>
            /\ recLast' = Step("onend", "", FALSE, {}, NoTimer)
    /\ UNCHANGED <<recognition, errorCount, autoRestart, stopped, fatal,
                   sinceNetwork, notRecognition>>

\* recognition.onresult -> handleRecognitionResult
HostResult(isFinal) ==
    /\ hostRec \in {"running", "stopping"}
    /\ recLast' = Step("onresult", "", FALSE,
                       IF isFinal THEN {"speechRecognized"} ELSE {}, NoTimer)
    /\ UNCHANGED <<recognition, isRecognizing, restartTimeout, restartTimer,
                   errorCount, autoRestart, hostRec, stopped, fatal, sinceNetwork,
                   notRecognition>>

\* recognition.onerror -> handleRecognitionError; the host delivers the
\* error of a session, started or not, and then its end
HostError(code) ==
    /\ hostRec \in {"starting", "running", "stopping"}
    /\ errorCount < MaxErrorCount
    /\ hostRec' = "ending"
    /\ errorCount' = errorCount + 1
    /\ fatal' = (fatal \/ code \in PermissionCodes)
    /\ sinceNetwork' = (sinceNetwork \/ code = "network")
    /\ CASE code = "no-speech" ->
              IF errorCount' < maxErrors
              THEN /\ ScheduleRestart(DefaultDelay)
                   /\ recLast' = Step("onerror", code, FALSE, {}, DefaultDelay)
              ELSE /\ UNCHANGED <<restartTimeout, restartTimer>>
                   /\ recLast' = Step("onerror", code, FALSE, {}, NoTimer)
         [] code \in PermissionCodes ->
              /\ UNCHANGED <<restartTimeout, restartTimer>>
              /\ recLast' = Step("onerror", code, FALSE, {"error"}, NoTimer)
         [] code = "network" ->
              /\ ScheduleRestart(NetworkDelay)
              /\ recLast' = Step("onerror", code, FALSE, {}, NetworkDelay)
         [] OTHER ->
              /\ UNCHANGED <<restartTimeout, restartTimer>>
              /\ recLast' = Step("onerror", code, FALSE,
                                 IF errorCount' >= maxErrors THEN {"error"} ELSE {},
                                 NoTimer)
    /\ UNCHANGED <<recognition, isRecognizing, autoRestart, stopped, notRecognition>>

\* the callback of scheduleRestart's setTimeout; the handle stays in
\* this.restartTimeout
RestartTimerFire ==
    /\ restartTimer # NoTimer
    /\ restartTimer' = NoTimer
    /\ IF ~isRecognizing /\ recognition
       THEN StartBody("timer")
       ELSE /\ UNCHANGED <<hostRec, sinceNetwork>>
            /\ recLast' = Step("timer", "", FALSE, {}, NoTimer)
    /\ UNCHANGED <<recognition, isRecognizing, restartTimeout, errorCount,
                   autoRestart, stopped, fatal, notRecognition>>

\* the state the constructor leaves, under either autoRestart setting
RecognitionInit ==
    /\ recognition = FALSE
    /\ isRecognizing = FALSE
    /\ restartTimeout = FALSE
    /\ restartTimer = NoTimer
    /\ errorCount = 0
    /\ autoRestart \in BOOLEAN
    /\ hostRec = "idle"
    /\ recLast = Step("constructor", "", FALSE, {}, NoTimer)
    /\ stopped = FALSE
    /\ fatal = FALSE
    /\ sinceNetwork = FALSE
    /\ oldRec = "idle"

\* --------------------------------------------------- LanguageProcessing
\* Texts are sequences of one-character strings over the lowercase letters
\* and the space. A regular expression is a tree; Ends gives the positions
\* after the last character of each match of it that starts at position i,
\* in the order the backtracking matcher tries them, so the first is the
\* one it returns.

Lit(word) == [t |-> "lit", w |-> word]
Cat(rs) == [t |-> "cat", rs |-> rs]
Alt(rs) == [t |-> "alt", rs |-> rs]
Opt(r) == [t |-> "opt", r |-> r]
\* \s+
Sp == [t |-> "sp"]
\* (.+)
AnyPlus == [t |-> "any"]
\* \b
Wb == [t |-> "wb"]
\* (?:the\s+)?
The == Opt(Cat(<<Lit(<<"t", "h", "e">>), Sp>>))

\* word occurs in s at position i
At(s, i, word) ==
    /\ i + Len(word) - 1 <= Len(s)
    /\ \A k \in 1..Len(word) : s[i + k - 1] = word[k]

\* \b at position i of s: of the characters before and at i, one is a word
\* character and the other is not
WordCharAt(s, i) == i \in 1..Len(s) /\ s[i] # " "
Boundary(s, i) == WordCharAt(s, i - 1) # WordCharAt(s, i)

\* a, a-1, ..., b
Down(a, b) == [k \in 1..(a - b + 1) |-> a - k + 1]

RECURSIVE SpacesAt(_, _)
SpacesAt(s, i) == IF i \in 1..Len(s) /\ s[i] = " " THEN 1 + SpacesAt(s, i + 1) ELSE 0

RECURSIVE Ends(_, _, _), EndsFrom(_, _, _), EndsCat(_, _, _), EndsAlt(_, _, _)
EndsFrom(r, s, starts) ==
    IF starts = <<>> THEN <<>>
    ELSE Ends(r, s, Head(starts)) \o EndsFrom(r, s, Tail(starts))
EndsCat(rs, s, starts) ==
    IF rs = <<>> THEN starts
    ELSE EndsCat(Tail(rs), s, EndsFrom(Head(rs), s, starts))
EndsAlt(rs, s, i) ==
    IF rs = <<>> THEN <<>>
    ELSE Ends(Head(rs), s, i) \o EndsAlt(Tail(rs), s, i)
Ends(r, s, i) ==
    CASE r.t = "lit" -> IF At(s, i, r.w) THEN <<i + Len(r.w)>> ELSE <<>>
      [] r.t = "cat" -> EndsCat(r.rs, s, <<i>>)
      [] r.t = "alt" -> EndsAlt(r.rs, s, i)
      [] r.t = "opt" -> Ends(r.r, s, i) \o <<i>>
      [] r.t = "sp" -> Down(i + SpacesAt(s, i), i + 1)
      [] r.t = "any" -> Down(Len(s) + 1, i + 1)
      [] r.t = "wb" -> IF Boundary(s, i) THEN <<i>> ELSE <<>>

\* regex.exec(s) with lastIndex = from - 1: the leftmost match that starts
\* at position from or later, as the positions of its first character and
\* after its last; start 0 when there is none
NoMatch == [start |-> 0, end |-> 0]
RECURSIVE ExecFrom(_, _, _)
ExecFrom(r, s, from) ==
    IF from > Len(s) + 1 THEN NoMatch
    ELSE LET ends == Ends(r, s, from)
         IN  IF ends # <<>> THEN [start |-> from, end |-> Head(ends)]
             ELSE ExecFrom(r, s, from + 1)

\* s.match(r) and r.test(s) for a pattern without the global flag
Match(r, s) == ExecFrom(r, s, 1)
Test(r, s) == Match(r, s).start # 0

\* s.trim()
RECURSIVE TrimLeft(_), TrimRight(_)
TrimLeft(s) == IF s # <<>> /\ Head(s) = " " THEN TrimLeft(Tail(s)) ELSE s
TrimRight(s) ==
    IF s # <<>> /\ s[Len(s)] = " " THEN TrimRight(SubSeq(s, 1, Len(s) - 1)) ELSE s
Trim(s) == TrimRight(TrimLeft(s))

\* s.replace(/\s+/g, '_')
RECURSIVE ReplaceSpaces(_)
ReplaceSpaces(s) ==
    IF s = <<>> THEN <<>>
    ELSE IF Head(s) = " " THEN <<"_">> \o ReplaceSpaces(TrimLeft(s))
    ELSE <<Head(s)>> \o ReplaceSpaces(Tail(s))

\* s.includes(word)
Contains(s, word) == \E i \in 1..(Len(s) + 1) : At(s, i, word)

\* intentPatterns.device_control
DeviceControlPatterns ==
    <<Cat(<<Lit(<<"t", "u", "r", "n">>), Sp, Alt(<<Lit(<<"o", "n">>), Lit(<<"o", "f", "f">>)>>), Sp, The, AnyPlus>>),
      Cat(<<Lit(<<"s", "w", "i", "t", "c", "h">>), Sp, Alt(<<Lit(<<"o", "n">>), Lit(<<"o", "f", "f">>)>>), Sp, The, AnyPlus>>),
      Cat(<<Alt(<<Lit(<<"d", "i", "m">>), Lit(<<"b", "r", "i", "g", "h", "t", "e", "n">>)>>), Sp, The, AnyPlus>>),
      Cat(<<Lit(<<"s", "e", "t">>), Sp, The, AnyPlus, Sp, Lit(<<"t", "o">>), Sp, AnyPlus>>),
      Cat(<<Alt(<<Lit(<<"s", "t", "a", "r", "t">>), Lit(<<"s", "t", "o", "p">>)>>), Sp, The, AnyPlus>>),
      Cat(<<Alt(<<Lit(<<"i", "n", "c", "r", "e", "a", "s", "e">>), Lit(<<"d", "e", "c", "r", "e", "a", "s", "e">>)>>), Sp, The, AnyPlus>>)>>

\* intentPatterns.information_request
InformationRequestPatterns ==
    <<Cat(<<Cat(<<Lit(<<"w", "h", "a", "t">>), Alt(<<Lit(<<"'", "s">>), Cat(<<Sp, Lit(<<"i", "s">>)>>)>>)>>), Sp, The, AnyPlus>>),
      Cat(<<Lit(<<"h", "o", "w">>), Sp, AnyPlus>>),
      Cat(<<Lit(<<"w", "h", "e", "n">>), Sp, AnyPlus>>),
      Cat(<<Lit(<<"w", "h", "e", "r", "e">>), Sp, AnyPlus>>),
      Cat(<<Lit(<<"t", "e", "l", "l">>), Sp, Lit(<<"m", "e">>), Sp, Lit(<<"a", "b", "o", "u", "t">>), Sp, AnyPlus>>),
      Cat(<<Lit(<<"w", "h", "a", "t">>), Sp, Lit(<<"t", "i", "m", "e">>), Sp, Lit(<<"i", "s">>), Sp, Lit(<<"i", "t">>)>>),
      Cat(<<Cat(<<Lit(<<"w", "h", "a", "t">>), Alt(<<Lit(<<"'", "s">>), Cat(<<Sp, Lit(<<"i", "s">>)>>)>>)>>), Sp, Lit(<<"t", "h", "e">>), Sp, Lit(<<"w", "e", "a", "t", "h", "e", "r">>)>>)>>

\* intentPatterns.system_control
SystemControlPatterns ==
    <<Alt(<<Lit(<<"s", "t", "o", "p">>), Lit(<<"p", "a", "u", "s", "e">>), Lit(<<"h", "a", "l", "t">>)>>),
      Alt(<<Lit(<<"r", "e", "s", "u", "m", "e">>), Lit(<<"c", "o", "n", "t", "i", "n", "u", "e">>)>>),
      Alt(<<Lit(<<"r", "e", "s", "t", "a", "r", "t">>), Lit(<<"r", "e", "b", "o", "o", "t">>)>>),
      Alt(<<Lit(<<"h", "e", "l", "p">>), Lit(<<"a", "s", "s", "i", "s", "t">>)>>),
      Cat(<<Lit(<<"v", "o", "l", "u", "m", "e">>), Sp, Alt(<<Lit(<<"u", "p">>), Lit(<<"d", "o", "w", "n">>)>>)>>),
      Cat(<<Lit(<<"r", "e", "p", "e", "a", "t">>), Sp, Lit(<<"t", "h", "a", "t">>)>>)>>

\* intentPatterns.greeting
GreetingPatterns ==
    <<Alt(<<Lit(<<"h", "e", "l", "l", "o">>), Lit(<<"h", "i">>), Lit(<<"h", "e", "y">>), Cat(<<Lit(<<"g", "o", "o", "d">>), Sp, Alt(<<Lit(<<"m", "o", "r", "n", "i", "n", "g">>), Lit(<<"a", "f", "t", "e", "r", "n", "o", "o", "n">>), Lit(<<"e", "v", "e", "n", "i", "n", "g">>)>>)>>)>>)>>

\* intentPatterns.goodbye
GoodbyePatterns ==
    <<Alt(<<Lit(<<"g", "o", "o", "d", "b", "y", "e">>), Lit(<<"b", "y", "e">>), Cat(<<Lit(<<"s", "e", "e">>), Sp, Lit(<<"y", "o", "u">>)>>), Lit(<<"f", "a", "r", "e", "w", "e", "l", "l">>)>>)>>

\* Object.entries(this.intentPatterns), in insertion order
IntentPatterns ==
    <<[name |-> "device_control", patterns |-> DeviceControlPatterns],
      [name |-> "information_request", patterns |-> InformationRequestPatterns],
      [name |-> "system_control", patterns |-> SystemControlPatterns],
      [name |-> "greeting", patterns |-> GreetingPatterns],
      [name |-> "goodbye", patterns |-> GoodbyePatterns]>>

\* entityPatterns.device (air\s*conditioner: the space is optional)
DevicePattern ==
    Cat(<<Wb, Alt(<<Lit(<<"l", "i", "g", "h", "t">>),
        Lit(<<"l", "a", "m", "p">>),
        Lit(<<"t", "h", "e", "r", "m", "o", "s", "t", "a", "t">>),
        Lit(<<"t", "v">>),
        Lit(<<"t", "e", "l", "e", "v", "i", "s", "i", "o", "n">>),
        Lit(<<"m", "u", "s", "i", "c">>),
        Lit(<<"s", "p", "e", "a", "k", "e", "r">>),
        Lit(<<"f", "a", "n">>),
        Lit(<<"h", "e", "a", "t", "e", "r">>),
        Cat(<<Lit(<<"a", "i", "r">>), Opt(Sp), Lit(<<"c", "o", "n", "d", "i", "t", "i", "o", "n", "e", "r">>)>>),
        Cat(<<Lit(<<"c", "o", "f", "f", "e", "e">>), Opt(Sp), Lit(<<"m", "a", "k", "e", "r">>)>>),
        Lit(<<"v", "a", "c", "u", "u", "m">>),
        Lit(<<"c", "a", "m", "e", "r", "a">>),
        Lit(<<"l", "o", "c", "k">>),
        Lit(<<"a", "l", "a", "r", "m">>)>>), Wb>>)

\* entityPatterns.room
RoomPattern ==
    Cat(<<Wb, Alt(<<Cat(<<Lit(<<"l", "i", "v", "i", "n", "g">>), Opt(Sp), Lit(<<"r", "o", "o", "m">>)>>),
        Lit(<<"b", "e", "d", "r", "o", "o", "m">>),
        Lit(<<"k", "i", "t", "c", "h", "e", "n">>),
        Lit(<<"b", "a", "t", "h", "r", "o", "o", "m">>),
        Cat(<<Lit(<<"d", "i", "n", "i", "n", "g">>), Opt(Sp), Lit(<<"r", "o", "o", "m">>)>>),
        Lit(<<"o", "f", "f", "i", "c", "e">>),
        Lit(<<"g", "a", "r", "a", "g", "e">>),
        Lit(<<"b", "a", "s", "e", "m", "e", "n", "t">>),
        Lit(<<"a", "t", "t", "i", "c">>),
        Lit(<<"h", "a", "l", "l", "w", "a", "y">>),
        Lit(<<"s", "t", "u", "d", "y">>)>>), Wb>>)

\* entityPatterns.number; the \d+ alternative cannot match a text without digits
NumberPattern ==
    Cat(<<Wb, Alt(<<Lit(<<"o", "n", "e">>),
        Lit(<<"t", "w", "o">>),
        Lit(<<"t", "h", "r", "e", "e">>),
        Lit(<<"f", "o", "u", "r">>),
        Lit(<<"f", "i", "v", "e">>),
        Lit(<<"s", "i", "x">>),
        Lit(<<"s", "e", "v", "e", "n">>),
        Lit(<<"e", "i", "g", "h", "t">>),
        Lit(<<"n", "i", "n", "e">>),
        Lit(<<"t", "e", "n">>),
        Lit(<<"e", "l", "e", "v", "e", "n">>),
        Lit(<<"t", "w", "e", "l", "v", "e">>),
        Lit(<<"t", "h", "i", "r", "t", "e", "e", "n">>),
        Lit(<<"f", "o", "u", "r", "t", "e", "e", "n">>),
        Lit(<<"f", "i", "f", "t", "e", "e", "n">>),
        Lit(<<"s", "i", "x", "t", "e", "e", "n">>),
        Lit(<<"s", "e", "v", "e", "n", "t", "e", "e", "n">>),
        Lit(<<"e", "i", "g", "h", "t", "e", "e", "n">>),
        Lit(<<"n", "i", "n", "e", "t", "e", "e", "n">>),
        Lit(<<"t", "w", "e", "n", "t", "y">>),
        Lit(<<"t", "h", "i", "r", "t", "y">>),
        Lit(<<"f", "o", "r", "t", "y">>),
        Lit(<<"f", "i", "f", "t", "y">>),
        Lit(<<"s", "i", "x", "t", "y">>),
        Lit(<<"s", "e", "v", "e", "n", "t", "y">>),
        Lit(<<"e", "i", "g", "h", "t", "y">>),
        Lit(<<"n", "i", "n", "e", "t", "y">>),
        Lit(<<"h", "u", "n", "d", "r", "e", "d">>)>>), Wb>>)

\* entityPatterns.color
ColorPattern ==
    Cat(<<Wb, Alt(<<Lit(<<"r", "e", "d">>),
        Lit(<<"b", "l", "u", "e">>),
        Lit(<<"g", "r", "e", "e", "n">>),
        Lit(<<"y", "e", "l", "l", "o", "w">>),
        Lit(<<"o", "r", "a", "n", "g", "e">>),
        Lit(<<"p", "u", "r", "p", "l", "e">>),
        Lit(<<"p", "i", "n", "k">>),
        Lit(<<"w", "h", "i", "t", "e">>),
        Lit(<<"b", "l", "a", "c", "k">>),
        Lit(<<"g", "r", "a", "y">>),
        Lit(<<"g", "r", "e", "y">>),
        Lit(<<"b", "r", "o", "w", "n">>)>>), Wb>>)

\* entityPatterns.action
ActionPattern ==
    Cat(<<Wb, Alt(<<Lit(<<"o", "n">>),
        Lit(<<"o", "f", "f">>),
        Lit(<<"u", "p">>),
        Lit(<<"d", "o", "w", "n">>),
        Lit(<<"i", "n", "c", "r", "e", "a", "s", "e">>),
        Lit(<<"d", "e", "c", "r", "e", "a", "s", "e">>),
        Lit(<<"d", "i", "m">>),
        Lit(<<"b", "r", "i", "g", "h", "t", "e", "n">>),
        Lit(<<"s", "t", "a", "r", "t">>),
        Lit(<<"s", "t", "o", "p">>),
        Lit(<<"p", "l", "a", "y">>),
        Lit(<<"p", "a", "u", "s", "e">>),
        Lit(<<"r", "e", "s", "u", "m", "e">>)>>), Wb>>)

\* Object.entries(this.entityPatterns), in insertion order; the temperature
\* pattern needs a digit and cannot match a text without digits
EntityPatterns ==
    <<[type |-> "device", pattern |-> DevicePattern],
      [type |-> "room", pattern |-> RoomPattern],
      [type |-> "number", pattern |-> NumberPattern],
      [type |-> "color", pattern |-> ColorPattern],
      [type |-> "action", pattern |-> ActionPattern]>>

\* wordToNumber(word).toString() for the words of the number pattern
NumberMap ==
    <<<<<<"o", "n", "e">>, <<"1">>>>,
      <<<<"t", "w", "o">>, <<"2">>>>,
      <<<<"t", "h", "r", "e", "e">>, <<"3">>>>,
      <<<<"f", "o", "u", "r">>, <<"4">>>>,
      <<<<"f", "i", "v", "e">>, <<"5">>>>,
      <<<<"s", "i", "x">>, <<"6">>>>,
      <<<<"s", "e", "v", "e", "n">>, <<"7">>>>,
      <<<<"e", "i", "g", "h", "t">>, <<"8">>>>,
      <<<<"n", "i", "n", "e">>, <<"9">>>>,
      <<<<"t", "e", "n">>, <<"1", "0">>>>,
      <<<<"e", "l", "e", "v", "e", "n">>, <<"1", "1">>>>,
      <<<<"t", "w", "e", "l", "v", "e">>, <<"1", "2">>>>,
      <<<<"t", "h", "i", "r", "t", "e", "e", "n">>, <<"1", "3">>>>,
      <<<<"f", "o", "u", "r", "t", "e", "e", "n">>, <<"1", "4">>>>,
      <<<<"f", "i", "f", "t", "e", "e", "n">>, <<"1", "5">>>>,
      <<<<"s", "i", "x", "t", "e", "e", "n">>, <<"1", "6">>>>,
      <<<<"s", "e", "v", "e", "n", "t", "e", "e", "n">>, <<"1", "7">>>>,
      <<<<"e", "i", "g", "h", "t", "e", "e", "n">>, <<"1", "8">>>>,
      <<<<"n", "i", "n", "e", "t", "e", "e", "n">>, <<"1", "9">>>>,
      <<<<"t", "w", "e", "n", "t", "y">>, <<"2", "0">>>>,
      <<<<"t", "h", "i", "r", "t", "y">>, <<"3", "0">>>>,
      <<<<"f", "o", "r", "t", "y">>, <<"4", "0">>>>,
      <<<<"f", "i", "f", "t", "y">>, <<"5", "0">>>>,
      <<<<"s", "i", "x", "t", "y">>, <<"6", "0">>>>,
      <<<<"s", "e", "v", "e", "n", "t", "y">>, <<"7", "0">>>>,
      <<<<"e", "i", "g", "h", "t", "y">>, <<"8", "0">>>>,
      <<<<"n", "i", "n", "e", "t", "y">>, <<"9", "0">>>>,
      <<<<"h", "u", "n", "d", "r", "e", "d">>, <<"1", "0", "0">>>>>>

RECURSIVE Lookup(_, _, _)
Lookup(map, key, default) ==
    IF map = <<>> THEN default
    ELSE IF Head(map)[1] = key THEN Head(map)[2]
    ELSE Lookup(Tail(map), key, default)

\* normalizeEntityValue(value, entityType)
NormalizeEntityValue(value, entityType) ==
    CASE entityType = "number" -> Lookup(NumberMap, Trim(value), <<"0">>)
      [] entityType \in {"device", "room"} -> ReplaceSpaces(Trim(value))
      [] OTHER -> Trim(value)

\* the while loop of extractEntities for one pattern with the global flag,
\* lastIndex = from - 1; the patterns of the table match no empty string,
\* so lastIndex advances
RECURSIVE ExecAll(_, _, _, _)
ExecAll(entityType, pattern, text, from) ==
    LET match == ExecFrom(pattern, text, from)
    IN  IF match.start = 0 THEN <<>>
        ELSE <<[type |-> entityType,
                value |-> NormalizeEntityValue(
                              SubSeq(text, match.start, match.end - 1), entityType),
                start |-> match.start - 1,
                end |-> match.end - 1]>>
             \o ExecAll(entityType, pattern, text, match.end)

\* extractEntities(text)
RECURSIVE ExtractEntitiesOf(_, _)
ExtractEntitiesOf(patterns, text) ==
    IF patterns = <<>> THEN <<>>
    ELSE ExecAll(Head(patterns).type, Head(patterns).pattern, text, 1)
             \o ExtractEntitiesOf(Tail(patterns), text)
ExtractEntities(text) == ExtractEntitiesOf(EntityPatterns, text)

\* A confidence is the fraction num / den.
Zero == [num |-> 0, den |-> 1]
Greater(a, b) == a.num * b.den > b.num * a.den
AtMostOne(a) == a.num >= 0 /\ a.num <= a.den

\* calculatePatternConfidence that ignores how much of the command matched
CalculatePatternConfidenceNoCoverage(match, command) ==
    LET bonus == match.start = 1 \/ command[match.start - 1] = " "
        num == 8 * Len(command) + (IF bonus THEN Len(command) ELSE 0)
        den == 10 * Len(command)
    IN  [num |-> IF num > den THEN den ELSE num, den |-> den]

\* calculatePatternConfidence(match, command):
\* min(0.8 * matched / length + (0.1 if the match starts a word), 1)
CalculatePatternConfidence(match, command) ==
    LET bonus == match.start = 1 \/ command[match.start - 1] = " "
        num == 8 * (match.end - match.start) + (IF bonus THEN Len(command) ELSE 0)
        den == 10 * Len(command)
    IN  [num |-> IF num > den THEN den ELSE num, den |-> den]

\* extractIntent whose comparison is >=: the last pattern with the greatest
\* confidence
RECURSIVE BestOfPatternsLast(_, _, _, _)
BestOfPatternsLast(name, patterns, command, best) ==
    IF patterns = <<>> THEN best
    ELSE LET match == Match(Head(patterns), command)
             confidence == CalculatePatternConfidence(match, command)
         IN  BestOfPatternsLast(name, Tail(patterns), command,
                 IF match.start # 0 /\ ~Greater(best.confidence, confidence)
                 THEN [name |-> name, confidence |-> confidence]
                 ELSE best)

\* extractIntent(command): the first pattern with the greatest confidence
RECURSIVE BestOfPatterns(_, _, _, _), BestOfIntents(_, _, _)
BestOfPatterns(name, patterns, command, best) ==
    IF patterns = <<>> THEN best
    ELSE LET match == Match(Head(patterns), command)
             confidence == CalculatePatternConfidence(match, command)
         IN  BestOfPatterns(name, Tail(patterns), command,
                 IF match.start # 0 /\ Greater(confidence, best.confidence)
                 THEN [name |-> name, confidence |-> confidence]
                 ELSE best)
BestOfIntents(intents, command, best) ==
    IF intents = <<>> THEN best
    ELSE BestOfIntents(Tail(intents), command,
             BestOfPatterns(Head(intents).name, Head(intents).patterns, command, best))
ExtractIntent(command) ==
    BestOfIntents(IntentPatterns, command, [name |-> "unknown", confidence |-> Zero])

\* the switch of determineDeviceAction; "resume" takes the default case
DeviceActions ==
    <<<<<<"o", "n">>, "turn_on">>,
      <<<<"o", "f", "f">>, "turn_off">>,
      <<<<"u", "p">>, "increase">>,
      <<<<"i", "n", "c", "r", "e", "a", "s", "e">>, "increase">>,
      <<<<"d", "o", "w", "n">>, "decrease">>,
      <<<<"d", "e", "c", "r", "e", "a", "s", "e">>, "decrease">>,
      <<<<"d", "i", "m">>, "dim">>,
      <<<<"b", "r", "i", "g", "h", "t", "e", "n">>, "brighten">>,
      <<<<"s", "t", "a", "r", "t">>, "start">>,
      <<<<"p", "l", "a", "y">>, "start">>,
      <<<<"s", "t", "o", "p">>, "stop">>,
      <<<<"p", "a", "u", "s", "e">>, "stop">>,
      <<<<"r", "e", "s", "u", "m", "e">>, "resume">>>>

\* entities.find(e => e.type === 'action')
RECURSIVE FirstOfType(_, _)
FirstOfType(entities, entityType) ==
    IF entities = <<>> THEN <<>>
    ELSE IF Head(entities).type = entityType THEN <<Head(entities)>>
    ELSE FirstOfType(Tail(entities), entityType)

\* determineDeviceAction(entities, command)
DetermineDeviceAction(entities, command) ==
    LET actionEntity == FirstOfType(entities, "action")
    IN  IF actionEntity # <<>> THEN Lookup(DeviceActions, actionEntity[1].value, "other")
        ELSE CASE Test(Alt(<<Cat(<<Lit(<<"t", "u", "r", "n">>), Sp, Lit(<<"o", "n">>)>>), Cat(<<Lit(<<"s", "w", "i", "t", "c", "h">>), Sp, Lit(<<"o", "n">>)>>)>>), command) -> "turn_on"
               [] Test(Alt(<<Cat(<<Lit(<<"t", "u", "r", "n">>), Sp, Lit(<<"o", "f", "f">>)>>), Cat(<<Lit(<<"s", "w", "i", "t", "c", "h">>), Sp, Lit(<<"o", "f", "f">>)>>)>>), command) -> "turn_off"
               [] Test(Lit(<<"d", "i", "m">>), command) -> "dim"
               [] Test(Lit(<<"b", "r", "i", "g", "h", "t", "e", "n">>), command) -> "brighten"
               [] Test(Alt(<<Lit(<<"s", "t", "a", "r", "t">>), Lit(<<"p", "l", "a", "y">>)>>), command) -> "start"
               [] Test(Alt(<<Lit(<<"s", "t", "o", "p">>), Lit(<<"p", "a", "u", "s", "e">>)>>), command) -> "stop"
               [] Test(Cat(<<Lit(<<"s", "e", "t">>), Opt(AnyPlus), Lit(<<"t", "o">>)>>), command) -> "set_value"
               [] OTHER -> "control"

\* determineSystemAction(command)
DetermineSystemAction(command) ==
    CASE Test(Alt(<<Lit(<<"s", "t", "o", "p">>), Lit(<<"p", "a", "u", "s", "e">>), Lit(<<"h", "a", "l", "t">>)>>), command) -> "stop"
      [] Test(Alt(<<Lit(<<"r", "e", "s", "u", "m", "e">>), Lit(<<"c", "o", "n", "t", "i", "n", "u", "e">>)>>), command) -> "resume"
      [] Test(Alt(<<Lit(<<"r", "e", "s", "t", "a", "r", "t">>), Lit(<<"r", "e", "b", "o", "o", "t">>)>>), command) -> "restart"
      [] Test(Alt(<<Lit(<<"h", "e", "l", "p">>), Lit(<<"a", "s", "s", "i", "s", "t">>)>>), command) -> "help"
      [] Test(Cat(<<Lit(<<"v", "o", "l", "u", "m", "e">>), Sp, Lit(<<"u", "p">>)>>), command) -> "volume_up"
      [] Test(Cat(<<Lit(<<"v", "o", "l", "u", "m", "e">>), Sp, Lit(<<"d", "o", "w", "n">>)>>), command) -> "volume_down"
      [] Test(Lit(<<"r", "e", "p", "e", "a", "t">>), command) -> "repeat"
      [] OTHER -> "system_control"

\* determineAction(intent, entities, command)
DetermineAction(intent, entities, command) ==
    CASE intent = "device_control" -> DetermineDeviceAction(entities, command)
      [] intent = "information_request" -> "get_information"
      [] intent = "system_control" -> DetermineSystemAction(command)
      [] intent = "greeting" -> "greet"
      [] intent = "goodbye" -> "farewell"
      [] OTHER -> "unknown"

\* processCommand(command); toLowerCase() changes no text of lowercase letters
ProcessCommand(command) ==
    LET normalizedCommand == Trim(command)
        intent == ExtractIntent(normalizedCommand)
        entities == ExtractEntities(command)
    IN  [intent |-> intent.name,
         action |-> DetermineAction(intent.name, entities, normalizedCommand),
         entities |-> entities,
         confidence |-> intent.confidence,
         originalText |-> command]

\* ------------------------------------------------ commands processed
\* Utterances are built from words joined by single spaces.
RECURSIVE Join(_)
Join(ws) ==
    IF ws = <<>> THEN <<>>
    ELSE IF Len(ws) = 1 THEN Head(ws)
    ELSE Head(ws) \o <<" ">> \o Join(Tail(ws))

Plural(word) == word \o <<"s">>

Prefixes == {<<>>, <<<<"m", "a", "y", "b", "e">>>>}
Suffixes == {<<>>, <<<<"p", "l", "e", "a", "s", "e">>>>}
TurnOn == <<<<"t", "u", "r", "n">>, <<"o", "n">>>>
Verbs == {TurnOn, <<<<"t", "u", "r", "n">>, <<"o", "f", "f">>>>, <<<<"d", "i", "m">>>>}
Articles == {<<>>, <<<<"t", "h", "e">>>>}
LivingRoom == <<<<"l", "i", "v", "i", "n", "g">>, <<"r", "o", "o", "m">>>>
Rooms == {LivingRoom, <<<<"k", "i", "t", "c", "h", "e", "n">>>>}
DeviceWords == {<<"l", "i", "g", "h", "t">>, <<"l", "a", "m", "p">>, <<"f", "a", "n">>, <<"t", "h", "e", "r", "m", "o", "s", "t", "a", "t">>}

\* prefix verb article room device suffix
Command(prefix, verb, article, room, device, suffix) ==
    Join(prefix \o verb \o article \o room \o <<device>> \o suffix)

\* utterances of the other intents, and one of none
OtherCommands ==
    {Join(ws) : ws \in {<<<<"s", "t", "o", "p">>>>, <<<<"h", "e", "l", "l", "o">>>>, <<<<"r", "e", "s", "t", "a", "r", "t">>>>, <<<<"w", "h", "a", "t">>, <<"t", "i", "m", "e">>, <<"i", "s">>, <<"i", "t">>>>, <<<<"x", "y", "z">>, <<"c", "o", "m", "m", "a", "n", "d">>>>, <<<<"g", "o", "o", "d", "b", "y", "e">>>>, <<<<"p", "a", "u", "s", "e">>, <<"h", "e", "l", "l", "o">>>>}}

Commands ==
    {Command(p, v, a, r, d, x) :
        p \in Prefixes, v \in Verbs, a \in Articles, r \in Rooms \cup {<<>>},
        d \in DeviceWords \cup {Plural(e) : e \in DeviceWords}, x \in Suffixes}
    \cup OtherCommands

\* the commands compared with each other
ComparedCommands ==
    {Command(p, TurnOn, a, <<>>, d, x) :
        p \in Prefixes, a \in Articles, d \in {<<"l", "i", "g", "h", "t", "s">>, <<"f", "a", "n">>}, x \in Suffixes}
    \cup OtherCommands

\* processCommand applied to each command drawn
ProcessCommands ==
    /\ lpCommands # <<>>
    /\ lpResults = <<>>
    /\ lpResults' = [i \in 1..Len(lpCommands) |-> ProcessCommand(lpCommands[i])]
    /\ UNCHANGED <<lpCommands, notLanguage>>

\* no command drawn
LanguageIdle ==
    /\ lpCommands = <<>>
    /\ lpResults = <<>>

\* ------------------------------------ processCommand, one step at a time
\* The call as the engine runs it: extractIntent, then the loop of
\* extractEntities one regex.exec and one entities.push at a time, over the
\* tables addCustomPattern and addCustomEntity have changed. The entities
\* pushed are not kept: the array only grows.

\* the patterns callers add: /light/ and /s?/, which matches the empty string
CustomRegexes == {Lit(<<"l", "i", "g", "h", "t">>), Opt(Lit(<<"s">>))}
\* the intents and entity types they are added to: one of the table, one new
CustomIntents == {"greeting", "mood"}
CustomTypes == {"device", "mood"}
\* the texts processed
CustomTexts ==
    {<<>>, <<"l", "i", "g", "h", "t", "s">>, <<"f", "a", "n", " ", "o", "n">>}

\* the constructor's entity table: every pattern has the flags gi
InitialEntityPatterns ==
    [i \in 1..Len(EntityPatterns) |->
        [type |-> EntityPatterns[i].type,
         pattern |-> EntityPatterns[i].pattern,
         global |-> TRUE]]

\* table[key] = entry: in place when the key exists, appended otherwise
SetEntry(table, key, entry) ==
    IF \E i \in 1..Len(table) : table[i].type = key
    THEN [i \in 1..Len(table) |-> IF table[i].type = key THEN entry ELSE table[i]]
    ELSE Append(table, entry)

\* this.intentPatterns[intent].push(pattern), the list made when missing
PushPattern(table, intent, pattern) ==
    IF \E i \in 1..Len(table) : table[i].name = intent
    THEN [i \in 1..Len(table) |->
             IF table[i].name = intent
             THEN [table[i] EXCEPT !.patterns = Append(@, pattern)]
             ELSE table[i]]
    ELSE Append(table, [name |-> intent, patterns |-> <<pattern>>])

\* this.intentPatterns and this.entityPatterns, as Object.entries lists them
RECURSIVE IntentTable(_, _), EntityTable(_, _)
IntentTable(table, added) ==
    IF added = <<>> THEN table
    ELSE IntentTable(PushPattern(table, Head(added).name, Head(added).pattern),
                     Tail(added))
EntityTable(table, added) ==
    IF added = <<>> THEN table
    ELSE EntityTable(SetEntry(table, Head(added).type, Head(added)), Tail(added))

\* addCustomPattern(intent, pattern), the pattern without the global flag
AddCustomPattern(intent, pattern) ==
    /\ lpPc \in {"idle", "done"}
    /\ Len(addedPatterns) < MaxCustomPatterns
    /\ addedPatterns' = Append(addedPatterns, [name |-> intent, pattern |-> pattern])
    /\ UNCHANGED <<addedEntities, lpPc, lpText, lpEntry, lastIndex, lpIntent, notCustom>>

\* addCustomEntity(entityType, pattern), the pattern with or without the
\* global flag
AddCustomEntity(entityType, pattern, global) ==
    /\ lpPc \in {"idle", "done"}
    /\ addedEntities' = SetEntry(addedEntities, entityType,
           [type |-> entityType, pattern |-> pattern, global |-> global])
    /\ UNCHANGED <<addedPatterns, lpPc, lpText, lpEntry, lastIndex, lpIntent, notCustom>>

\* processCommand(command) up to the first regex.exec of extractEntities
BeginProcessCommand(command) ==
    /\ lpPc \in {"idle", "done"}
    /\ lpText' = command
    /\ lpIntent' = BestOfIntents(IntentTable(IntentPatterns, addedPatterns), Trim(command),
                       [name |-> "unknown", confidence |-> Zero]).name
    /\ lpEntry' = 1
    /\ lastIndex' = 0
    /\ lpPc' = "exec"
    /\ UNCHANGED <<addedPatterns, addedEntities, notCustom>>

\* match = regex.exec(text) and the test of the while loop. With the global
\* flag the search starts at lastIndex and a match sets lastIndex to its
\* end; without it the search starts at 0 and lastIndex stays. No match
\* ends the loop: the next entry gets a new RegExp, the last one returns.
Exec ==
    /\ lpPc = "exec"
    /\ LET entityPatterns == EntityTable(InitialEntityPatterns, addedEntities)
           entry == entityPatterns[lpEntry]
           match == ExecFrom(entry.pattern, lpText,
                        IF entry.global THEN lastIndex + 1 ELSE 1)
       IN  IF match.start # 0
           THEN /\ lastIndex' = IF entry.global THEN match.end - 1 ELSE lastIndex
                /\ lpPc' = "push"
                /\ UNCHANGED lpEntry
           ELSE /\ lastIndex' = 0
                /\ lpPc' = IF lpEntry < Len(entityPatterns) THEN "exec" ELSE "done"
                /\ lpEntry' = IF lpEntry < Len(entityPatterns) THEN lpEntry + 1 ELSE lpEntry
    /\ UNCHANGED <<addedPatterns, addedEntities, lpText, lpIntent, notCustom>>

\* entities.push({...}) and back to the test of the loop
Push ==
    /\ lpPc = "push"
    /\ lpPc' = "exec"
    /\ UNCHANGED <<addedPatterns, addedEntities, lpText, lpEntry, lastIndex,
                   lpIntent, notCustom>>

\* the constructor's tables, no call yet
CustomInit ==
    /\ addedPatterns = <<>>
    /\ addedEntities = <<>>
    /\ lpPc = "idle"
    /\ lpText = <<>>
    /\ lpEntry = 1
    /\ lastIndex = 0
    /\ lpIntent = "unknown"

\* -------------------------------------------------- SmartVoiceAssistant
\* The assistant's calls on SpeechRecognition and SpeechSynthesis are
\* recorded in turn (reached, spoken); its controlDevice call is the
\* DeviceManager's.

\* confidences of recognized utterances and configured minima, in tenths
\* (the default minimum is 0.7)
Confidences == {0, 5, 7, 9}
MinConfidences == {0, 7, 10}

\* controlDevice(fullDeviceId, action): parameters undefined
NoParameters == [x \in {} |-> 0]

\* what the last call did: the components it reached, the utterances it
\* handed to speak(), the step that threw inside it, whether the call threw
Turn(op, confidence, reached, spoken, failure, threw) ==
    [op |-> op, confidence |-> confidence, reached |-> reached, spoken |-> spoken,
     failure |-> failure, threw |-> threw]

\* ProcessingResults of processCommand: the intent, the action, the values
\* of the first device and room entities ("" when there is none); intent
\* "throws" stands for processCommand rejecting
LpResult(intent, action, device, room) ==
    [intent |-> intent, action |-> action, device |-> device, room |-> room]

LpResults ==
    {LpResult("device_control", a, d, r) :
        a \in {"turn_on", "dim"}, d \in {"", "light", "fan"}, r \in {"", "living_room"}}
    \cup {LpResult("system_control", a, "", "") : a \in {"stop", "pause", "restart", "help"}}
    \cup {LpResult("information_request", "get_information", "", ""),
          LpResult("greeting", "greet", "", ""),
          LpResult("throws", "", "", "")}

\* room ? `${room}-${deviceId}` : deviceId
FullDeviceId(room, device) ==
    CASE room = "" -> device
      [] room = "living_room" /\ device = "light" -> "living_room-light"
      [] room = "living_room" /\ device = "fan" -> "living_room-fan"

\* handleVoiceCommand without the confidence check
NeverBelowMinimum(confidence) == FALSE

\* confidence < this.config.get('minConfidence', 0.7)
BelowMinimum(confidence) == confidence < minConfidence

\* handleVoiceCommand without its catch block: the error leaves the handler
Rethrow(confidence, reached, failure) ==
    turn' = Turn("handleVoiceCommand", confidence, reached, <<>>, failure, TRUE)

\* the catch block of handleVoiceCommand; nothing was spoken before the throw
Apologize(confidence, reached, failure) ==
    turn' = Turn("handleVoiceCommand", confidence, reached, <<"apology">>, failure, FALSE)

\* handleVoiceCommand returning from its try block
Completed(confidence, reached, spoken) ==
    turn' = Turn("handleVoiceCommand", confidence, reached, spoken, "", FALSE)

\* what stop() calls: nothing when the assistant is not active
StopCalls == IF isActive THEN {"stopRecognition", "stopSpeaking"} ELSE {}

\* handleVoiceCommand({command, confidence}); lp is what processCommand
\* gives for the command, startFails whether initialize() throws when the
\* 'restart' command starts the assistant again
HandleVoiceCommand(confidence, lp, startFails) ==
    /\ IF BelowMinimum(confidence)
       THEN /\ Completed(confidence, {}, <<"clarification">>)
            /\ UNCHANGED <<isActive, deviceVars>>
       ELSE CASE lp.intent = "throws" ->
                   /\ Apologize(confidence, {"processCommand"}, "processCommand")
                   /\ UNCHANGED <<isActive, deviceVars>>
              [] lp.intent = "device_control" /\ lp.device = "" ->
                   /\ Completed(confidence, {"processCommand"}, <<"which_device">>)
                   /\ UNCHANGED <<isActive, deviceVars>>
              [] lp.intent = "device_control" /\ lp.device # "" ->
                   /\ ControlDeviceCall(FullDeviceId(lp.room, lp.device), lp.action, NoParameters)
                   /\ Completed(confidence, {"processCommand", "controlDevice"},
                                <<IF lastResult' THEN "success" ELSE "failure">>)
                   /\ UNCHANGED isActive
              [] lp.intent = "information_request" ->
                   /\ Completed(confidence, {"processCommand"}, <<"information">>)
                   /\ UNCHANGED <<isActive, deviceVars>>
              [] lp.intent = "system_control" /\ lp.action \in {"stop", "pause"} ->
                   /\ Completed(confidence, {"processCommand"} \cup StopCalls, <<"stopped">>)
                   /\ isActive' = FALSE
                   /\ UNCHANGED deviceVars
              [] lp.intent = "system_control" /\ lp.action = "restart" ->
                   /\ IF startFails
                      THEN /\ Apologize(confidence,
                                        {"processCommand", "initialize"} \cup StopCalls, "start")
                           /\ isActive' = FALSE
                      ELSE /\ Completed(confidence,
                                        {"processCommand", "initialize", "startRecognition"}
                                            \cup StopCalls, <<"hello">>)
                           /\ isActive' = TRUE
                   /\ UNCHANGED deviceVars
              [] lp.intent = "system_control" /\ lp.action \notin {"stop", "pause", "restart"} ->
                   /\ Completed(confidence, {"processCommand"}, <<"not_recognized">>)
                   /\ UNCHANGED <<isActive, deviceVars>>
              [] OTHER ->
                   /\ Completed(confidence, {"processCommand"}, <<"not_sure">>)
                   /\ UNCHANGED <<isActive, deviceVars>>
    /\ UNCHANGED <<minConfidence, notAssistant>>

\* start(): initialize() throwing is passed on to the caller
AssistantStart(startFails) ==
    /\ IF isActive
       THEN /\ turn' = Turn("start", 0, {}, <<>>, "", FALSE)
            /\ UNCHANGED isActive
       ELSE IF startFails
       THEN /\ turn' = Turn("start", 0, {"initialize"}, <<>>, "start", TRUE)
            /\ UNCHANGED isActive
       ELSE /\ turn' = Turn("start", 0, {"initialize", "startRecognition"}, <<"hello">>, "", FALSE)
            /\ isActive' = TRUE
    /\ UNCHANGED <<minConfidence, deviceVars, notAssistant>>

\* stop()
AssistantStop ==
    /\ turn' = Turn("stop", 0, StopCalls, <<>>, "", FALSE)
    /\ isActive' = FALSE
    /\ UNCHANGED <<minConfidence, deviceVars, notAssistant>>

\* the state the constructor leaves, under each configured minimum
AssistantInit ==
    /\ isActive = FALSE
    /\ minConfidence \in MinConfidences
    /\ turn = Turn("constructor", 0, {}, <<>>, "", FALSE)

\* ----------------------------- SmartVoiceAssistant over its recognizer
\* start() and the 'restart' command with the SpeechRecognition instance's
\* own state. initialize() makes a new host recognizer each time it is
\* called; the handlers of the recognizer it replaces stay bound to the
\* same instance, so that recognizer's events still reach onstart and onend.

\* stop() -> stopRecognition(): the host's stop() on a session that fired
\* 'start'
AfterStop == IF recognition /\ isRecognizing /\ hostRec = "running"
             THEN "stopping" ELSE hostRec

\* start() past its isActive check: initialize() replaces the recognizer,
\* whose session was replaced; startRecognition() returns early while
\* isRecognizing is set, and else calls start() on the new recognizer
StartSession(op, replaced) ==
    /\ replaced = "idle" \/ oldRec = "idle"
    /\ recognition' = TRUE
    /\ oldRec' = IF replaced = "idle" THEN oldRec ELSE replaced
    /\ hostRec' = IF isRecognizing THEN "idle" ELSE "starting"
    /\ recLast' = Step(op, "", ~isRecognizing, {}, NoTimer)
    /\ sinceNetwork' = (sinceNetwork /\ isRecognizing)
    /\ stopped' = FALSE
    /\ fatal' = FALSE
    /\ isActive' = TRUE
    /\ turn' = Turn(op, 0, {"initialize", "startRecognition"}, <<"hello">>, "", FALSE)

\* start() on an assistant that is not active
StartAssistant ==
    /\ ~isActive
    /\ StartSession("start", hostRec)
    /\ UNCHANGED <<isRecognizing, restartTimeout, restartTimer, errorCount,
                   autoRestart, minConfidence, synthVars, voiceVars, deviceVars,
                   languageVars, customVars, configVars, emitterVars, taskVars, clockVars>>

\* handleSystemControl('restart') on an active assistant: stop(), which
\* clears the restart timer, then start()
RestartAssistant ==
    /\ isActive
    /\ StartSession("restart", AfterStop)
    /\ restartTimeout' = FALSE
    /\ restartTimer' = NoTimer
    /\ UNCHANGED <<isRecognizing, errorCount, autoRestart, minConfidence,
                   synthVars, voiceVars, deviceVars, languageVars, customVars,
                   configVars, emitterVars, taskVars, clockVars>>

\* stop() on an active assistant
StopAssistant ==
    /\ isActive
    /\ restartTimeout' = FALSE
    /\ restartTimer' = NoTimer
    /\ hostRec' = AfterStop
    /\ recLast' = Step("stop", "", FALSE, {}, NoTimer)
    /\ stopped' = TRUE
    /\ isActive' = FALSE
    /\ turn' = Turn("stop", 0, StopCalls, <<>>, "", FALSE)
    /\ UNCHANGED <<recognition, isRecognizing, errorCount, autoRestart, fatal,
                   sinceNetwork, oldRec, minConfidence, synthVars, voiceVars,
                   deviceVars, languageVars, customVars, configVars, emitterVars,
                   taskVars, clockVars>>

\* onstart, fired by the replaced recognizer
OldHostStart ==
    /\ oldRec = "starting"
    /\ oldRec' = "running"
    /\ isRecognizing' = TRUE
    /\ errorCount' = 0
    /\ recLast' = Step("onstart", "", FALSE, {}, NoTimer)
    /\ UNCHANGED <<recognition, restartTimeout, restartTimer, autoRestart, hostRec,
                   stopped, fatal, sinceNetwork, assistantVars, synthVars,
                   voiceVars, deviceVars, languageVars, customVars, configVars,
                   emitterVars, taskVars, clockVars>>

\* onend, fired by the replaced recognizer
OldHostEnd ==
    /\ oldRec \in {"running", "stopping", "ending"}
    /\ oldRec' = "idle"
    /\ isRecognizing' = FALSE
    /\ IF autoRestart /\ errorCount < maxErrors
       THEN /\ ScheduleRestart(DefaultDelay)
            /\ recLast' = Step("onend", "", FALSE, {}, DefaultDelay)
       ELSE /\ UNCHANGED <<restartTimeout, restartTimer>>
            /\ recLast' = Step("onend", "", FALSE, {}, NoTimer)
    /\ UNCHANGED <<recognition, errorCount, autoRestart, hostRec, stopped, fatal,
                   sinceNetwork, assistantVars, synthVars, voiceVars, deviceVars,
                   languageVars, customVars, configVars, emitterVars, taskVars, clockVars>>

\* -------------------------------------------------------- ConfigManager
\* Values are tagged: num (a finite number, in tenths), nan, str, null,
\* undef (undefined) and obj, whose f maps its own keys to values. An
\* object's keys are unordered here, so equality of values is deep equality.
\* The configuration has the keys minConfidence and speechSynthesis.rate and
\* .volume of ConfigSchema; the other keys behave like these.
Num(n) == [k |-> "num", n |-> n]
Str(s) == [k |-> "str", s |-> s]
Nan == [k |-> "nan"]
Null == [k |-> "null"]
Undef == [k |-> "undef"]
Obj(f) == [k |-> "obj", f |-> f]
EmptyObject == [key \in {} |-> Undef]
\* object[key] = value
Put(f, key, value) == [x \in DOMAIN f \cup {key} |-> IF x = key THEN value ELSE f[x]]

\* defaultConfig
DefaultConfig ==
    [minConfidence |-> Num(7),
     speechSynthesis |-> Obj([rate |-> Num(10), volume |-> Num(10)])]

\* the order JSON.stringify writes the keys in
KeyOrder == <<"minConfidence", "speechSynthesis", "rate", "volume">>

\* JSON.stringify(value), as the tokens of the text (white space left out):
\* NaN is written as null, a key whose value is undefined is not written
RECURSIVE JsonStringify(_), StringifyMembers(_, _)
StringifyMembers(f, keys) ==
    IF keys = <<>> THEN <<>>
    ELSE <<[t |-> "str", s |-> Head(keys)], [t |-> ":"]>>
             \o JsonStringify(f[Head(keys)])
             \o (IF Tail(keys) = <<>> THEN <<>> ELSE <<[t |-> ","]>>)
             \o StringifyMembers(f, Tail(keys))
JsonStringify(value) ==
    CASE value.k = "num" -> <<[t |-> "num", n |-> value.n]>>
      [] value.k \in {"nan", "null"} -> <<[t |-> "null"]>>
      [] value.k = "str" -> <<[t |-> "str", s |-> value.s]>>
      [] value.k = "obj" ->
            <<[t |-> "{"]>>
                \o StringifyMembers(value.f,
                       SelectSeq(KeyOrder, LAMBDA key :
                           key \in DOMAIN value.f /\ value.f[key].k # "undef"))
                \o <<[t |-> "}"]>>

\* JSON.parse(text) over the tokens: ok FALSE is the SyntaxError
RECURSIVE ParseValue(_, _), ParseMembers(_, _, _)
ParseValue(text, i) ==
    IF i > Len(text) THEN [ok |-> FALSE]
    ELSE CASE text[i].t = "num" -> [ok |-> TRUE, v |-> Num(text[i].n), i |-> i + 1]
           [] text[i].t = "str" -> [ok |-> TRUE, v |-> Str(text[i].s), i |-> i + 1]
           [] text[i].t = "null" -> [ok |-> TRUE, v |-> Null, i |-> i + 1]
           [] text[i].t = "{" ->
                 IF i + 1 <= Len(text) /\ text[i + 1].t = "}"
                 THEN [ok |-> TRUE, v |-> Obj(EmptyObject), i |-> i + 2]
                 ELSE ParseMembers(text, i + 1, EmptyObject)
           [] OTHER -> [ok |-> FALSE]
ParseMembers(text, i, f) ==
    IF i + 1 > Len(text) \/ text[i].t # "str" \/ text[i + 1].t # ":" THEN [ok |-> FALSE]
    ELSE LET member == ParseValue(text, i + 2)
         IN  IF ~member.ok \/ member.i > Len(text) THEN [ok |-> FALSE]
             ELSE CASE text[member.i].t = "}" ->
                          [ok |-> TRUE, v |-> Obj(Put(f, text[i].s, member.v)),
                           i |-> member.i + 1]
                    [] text[member.i].t = "," ->
                          ParseMembers(text, member.i + 1, Put(f, text[i].s, member.v))
                    [] OTHER -> [ok |-> FALSE]
JsonParse(text) ==
    LET parsed == ParseValue(text, 1)
    IN  IF parsed.ok /\ parsed.i = Len(text) + 1
        THEN [ok |-> TRUE, v |-> parsed.v]
        ELSE [ok |-> FALSE]

\* the keys for (key in source) goes through (no string is merged)
KeysOf(source) ==
    CASE source.k = "obj" -> DOMAIN source.f
      [] source.k \in {"num", "nan", "null", "undef"} -> {}

\* a merge that replaces a nested object instead of merging into it
ShallowMerge(target, source) ==
    Obj([key \in DOMAIN target.f \cup KeysOf(source) |->
            IF key \in KeysOf(source) THEN source.f[key] ELSE target.f[key]])

\* deepMerge(target, source): { ...target } with every key of source
\* written over it, a non-null object merged into target[key] || {}
RECURSIVE DeepMerge(_, _)
DeepMerge(target, source) ==
    LET spread == CASE target.k = "obj" -> target.f
                    [] target.k \in {"num", "nan", "null", "undef"} -> EmptyObject
        at(key) == IF key \in DOMAIN spread THEN spread[key] ELSE Undef
        falsy(value) == \/ value.k \in {"undef", "null", "nan"}
                        \/ value.k = "num" /\ value.n = 0
                        \/ value.k = "str" /\ value.s = ""
    IN  Obj([key \in DOMAIN spread \cup KeysOf(source) |->
                IF key \notin KeysOf(source) THEN spread[key]
                ELSE IF source.f[key].k = "obj"
                THEN DeepMerge(IF falsy(at(key)) THEN Obj(EmptyObject) ELSE at(key),
                               source.f[key])
                ELSE source.f[key]])

\* what the last call did
Called(op, threw, message, before, text) ==
    [op |-> op, threw |-> threw, message |-> message, before |-> before, text |-> text]

\* set(path, value). The section of a two-key path is made when it is
\* missing or typeof says it is no object; null passes as an object and the
\* assignment into it throws a TypeError. A section still shared with
\* defaultConfig is changed there too.
ConfigSet(path, value) ==
    LET key == path[1]
        made == key \notin DOMAIN config \/ config[key].k \notin {"obj", "null"}
        section == Obj(Put(IF made THEN EmptyObject ELSE config[key].f, path[2], value))
    IN  /\ IF Len(path) = 1
           THEN /\ config' = Put(config, key, value)
                /\ shared' = shared \ {key}
                /\ UNCHANGED defaultConfig
                /\ cfgLast' = Called("set", FALSE, "", config, <<>>)
           ELSE IF ~made /\ config[key].k = "null"
           THEN /\ UNCHANGED <<config, defaultConfig, shared>>
                /\ cfgLast' = Called("set", TRUE, "TypeError", config, <<>>)
           ELSE /\ config' = Put(config, key, section)
                /\ shared' = IF made THEN shared \ {key} ELSE shared
                /\ defaultConfig' = IF ~made /\ key \in shared
                                    THEN Put(defaultConfig, key, section)
                                    ELSE defaultConfig
                /\ cfgLast' = Called("set", FALSE, "", config, <<>>)
        /\ UNCHANGED notConfig

\* get(path) on the configuration cfg, without defaultValue: undefined when
\* a key of the path is missing or its holder is no object
ConfigGet(cfg, path) ==
    IF path[1] \notin DOMAIN cfg THEN Undef
    ELSE IF Len(path) = 1 THEN cfg[path[1]]
    ELSE IF cfg[path[1]].k = "obj" /\ path[2] \in DOMAIN cfg[path[1]].f
    THEN cfg[path[1]].f[path[2]]
    ELSE Undef

\* update(newConfig): every key of newConfig gets a value of its own
ConfigUpdateCall(op, newConfig, text) ==
    /\ config' = DeepMerge(Obj(config), newConfig).f
    /\ shared' = shared \ KeysOf(newConfig)
    /\ cfgLast' = Called(op, FALSE, "", config, text)
    /\ UNCHANGED defaultConfig
ConfigUpdate(newConfig) ==
    /\ ConfigUpdateCall("update", newConfig, <<>>)
    /\ UNCHANGED notConfig

\* reset(): a shallow copy of defaultConfig, its sections shared
ConfigReset ==
    /\ config' = defaultConfig
    /\ shared' = {key \in DOMAIN defaultConfig : defaultConfig[key].k = "obj"}
    /\ cfgLast' = Called("reset", FALSE, "", config, <<>>)
    /\ UNCHANGED <<defaultConfig, notConfig>>

\* export()
ConfigExport == JsonStringify(Obj(config))

\* import(configJson): whatever JSON.parse or update throws is replaced by
\* the fixed error
ConfigImportCall(op, configJson) ==
    LET importedConfig == JsonParse(configJson)
    IN  IF importedConfig.ok
        THEN ConfigUpdateCall(op, importedConfig.v, configJson)
        ELSE /\ UNCHANGED <<config, defaultConfig, shared>>
             /\ cfgLast' = Called(op, TRUE, "Invalid configuration JSON",
                                  config, configJson)
ConfigImport(configJson) ==
    /\ ConfigImportCall("import", configJson)
    /\ UNCHANGED notConfig

\* import(export())
RoundTrip ==
    /\ ConfigImportCall("roundtrip", ConfigExport)
    /\ UNCHANGED notConfig

\* new ConfigManager(): { ...defaultConfig }, nothing set by the environment
ConfigInit ==
    /\ config = DefaultConfig
    /\ defaultConfig = DefaultConfig
    /\ shared = {"speechSynthesis"}
    /\ cfgLast = Called("new", FALSE, "", DefaultConfig, <<>>)

\* the calls made: set() on a key and on a dot-path with a number, NaN (what
\* parseFloat gives loadFromEnvironment for a value that is no number) and
\* undefined; update() and import() with partial configurations; import()
\* with texts that are no JSON
SetPaths == {<<"minConfidence">>, <<"speechSynthesis", "rate">>}
SetValues == {Num(5), Nan, Undef}
PartialConfigs ==
    {Obj([speechSynthesis |-> Obj([volume |-> Num(5)])]),
     Obj([minConfidence |-> Null])}
MalformedTexts ==
    {<<>>,
     <<[t |-> "{"]>>,
     <<[t |-> "{"], [t |-> "str", s |-> "minConfidence"], [t |-> ":"], [t |-> "}"]>>,
     <<[t |-> "{"], [t |-> "str", s |-> "minConfidence"], [t |-> ":"],
       [t |-> "num", n |-> 5], [t |-> ","], [t |-> "}"]>>,
     <<[t |-> "null"], [t |-> "}"]>>}
ImportTexts ==
    {JsonStringify(newConfig) : newConfig \in PartialConfigs \cup {Null}}
        \cup MalformedTexts

\* --------------------------------------------------------- EventEmitter
\* The listeners of one event. A listener is a callback that returns or
\* throws; once() registers a wrapper that calls the callback and then
\* removes itself.

\* callbacks.indexOf(callback), 0 when it is not in the array
IndexOf(list, id) ==
    IF \E i \in 1..Len(list) : list[i].id = id
    THEN CHOOSE i \in 1..Len(list) :
             list[i].id = id /\ \A j \in 1..(i - 1) : list[j].id # id
    ELSE 0

\* callbacks.splice(index, 1)
Splice(list, index) ==
    [i \in 1..(Len(list) - 1) |-> IF i < index THEN list[i] ELSE list[i + 1]]

\* a delivery without the try block: the error leaves forEach and emit
NoCatch(delivery, id) ==
    [delivery EXCEPT !.threw = @ \cup {id}, !.propagated = TRUE]

\* the catch block of emit: the error is logged
CatchError(delivery, id) ==
    [delivery EXCEPT !.threw = @ \cup {id}]

\* callbacks.forEach(...) from index k on, the array length elements long
\* when forEach began: an index the array no longer has is passed over. A
\* wrapper of once() whose callback throws does not reach its off().
RECURSIVE ForEach(_, _, _)
ForEach(delivery, k, length) ==
    IF k > length \/ delivery.propagated THEN delivery
    ELSE IF k > Len(delivery.callbacks) THEN ForEach(delivery, k + 1, length)
    ELSE LET callback == delivery.callbacks[k]
             invoked == [delivery EXCEPT !.invoked = Append(@, callback.id)]
         IN  ForEach(
                 IF callback.kind = "throws" THEN CatchError(invoked, callback.id)
                 ELSE IF callback.once
                 THEN [invoked EXCEPT
                          !.callbacks = Splice(@, IndexOf(@, callback.id)),
                          !.removed = @ \cup {callback.id}]
                 ELSE invoked,
                 k + 1, length)

\* on(event, callback) and once(event, callback) with a new callback
On(kind, once) ==
    /\ nextListener <= MaxListeners
    /\ callbacks' = Append(callbacks, [id |-> nextListener, kind |-> kind, once |-> once])
    /\ nextListener' = nextListener + 1
    /\ UNCHANGED <<emitLast, notEmitter>>

\* off(event, callback) with a callback on() was given; the wrapper of
\* once() is known to the emitter only
Off(id) ==
    /\ IndexOf(callbacks, id) > 0
    /\ ~callbacks[IndexOf(callbacks, id)].once
    /\ callbacks' = Splice(callbacks, IndexOf(callbacks, id))
    /\ UNCHANGED <<nextListener, emitLast, notEmitter>>

\* emit(event, data)
Emit ==
    LET delivery == ForEach([callbacks |-> callbacks, invoked |-> <<>>, threw |-> {},
                             removed |-> {}, propagated |-> FALSE],
                            1, Len(callbacks))
    IN  /\ callbacks' = delivery.callbacks
        /\ emitLast' = [called |-> TRUE, before |-> callbacks,
                        invoked |-> delivery.invoked, threw |-> delivery.threw,
                        removed |-> delivery.removed,
                        propagated |-> delivery.propagated,
                        ever |-> emitLast.ever \cup Range(delivery.invoked),
                        again |-> emitLast.ever \cap Range(delivery.invoked)]
        /\ UNCHANGED <<nextListener, notEmitter>>

\* new EventEmitter()
EmitterInit ==
    /\ callbacks = <<>>
    /\ nextListener = 1
    /\ emitLast = [called |-> FALSE, before |-> <<>>, invoked |-> <<>>, threw |-> {},
                   removed |-> {}, propagated |-> FALSE, ever |-> {}, again |-> {}]

\* ----------------------------------------------- ResponsivenessOptimizer
\* The task queue: addTask, the batches of processTasksInParallel, the
\* tasks' promises settling and the continuation timer.

\* optimizeResponsiveness: the queue is optimized above this length
QueueThreshold == 10

\* enableParallelProcessing() and processTasksInParallel() up to its await:
\* when no batch is awaited and tasks wait, the first three at most are taken
\* off the queue and started, and Promise.all waits for them
EnableParallelProcessing(queue) ==
    IF ~isProcessing /\ queue # <<>>
    THEN LET batchSize == Min(3, Len(queue))
         IN  /\ isProcessing' = TRUE
             /\ taskQueue' = SubSeq(queue, batchSize + 1, Len(queue))
             /\ running' = running \cup {queue[i].id : i \in 1..batchSize}
             /\ awaited' = {queue[i].id : i \in 1..batchSize}
             /\ batchPc' = "awaiting"
    ELSE /\ taskQueue' = queue
         /\ UNCHANGED <<isProcessing, running, awaited, batchPc>>

\* addTask(task, priority)
AddTask(priority) ==
    /\ nextTask <= MaxTasks
    /\ nextTask' = nextTask + 1
    /\ EnableParallelProcessing(Append(taskQueue, [id |-> nextTask, priority |-> priority,
                                                   during |-> isProcessing]))
    /\ UNCHANGED <<taskTimers, queueLength, notTask>>

\* the promise of a started task is fulfilled; Promise.all is fulfilled when
\* it was the last one awaited
TaskCompletes(id) ==
    /\ id \in running
    /\ running' = running \ {id}
    /\ awaited' = awaited \ {id}
    /\ batchPc' = IF id \in awaited /\ awaited = {id} THEN "settled" ELSE batchPc
    /\ UNCHANGED <<taskQueue, isProcessing, taskTimers, nextTask, queueLength, notTask>>

\* the promise of a started task is rejected; Promise.all is rejected at
\* once when the task is one of those awaited, whatever the others do
TaskFails(id) ==
    /\ id \in running
    /\ running' = running \ {id}
    /\ awaited' = IF id \in awaited THEN {} ELSE awaited
    /\ batchPc' = IF id \in awaited THEN "settled" ELSE batchPc
    /\ UNCHANGED <<taskQueue, isProcessing, taskTimers, nextTask, queueLength, notTask>>

\* processTasksInParallel() after its await: catch and finally
Finally ==
    /\ batchPc = "settled"
    /\ batchPc' = "idle"
    /\ isProcessing' = FALSE
    /\ taskTimers' = IF taskQueue # <<>> THEN taskTimers + 1 ELSE taskTimers
    /\ UNCHANGED <<taskQueue, running, awaited, nextTask, queueLength, notTask>>

\* the timer of 10 ms set in finally: enableParallelProcessing()
ContinuationTimer ==
    /\ taskTimers > 0
    /\ taskTimers' = taskTimers - 1
    /\ EnableParallelProcessing(taskQueue)
    /\ UNCHANGED <<nextTask, queueLength, notTask>>

\* taskQueue.sort((a, b) => b.priority - a.priority): the sort is stable
RECURSIVE SortByPriority(_)
SortByPriority(queue) ==
    IF queue = <<>> THEN <<>>
    ELSE LET top == CHOOSE i \in 1..Len(queue) :
                        /\ \A j \in 1..Len(queue) : queue[j].priority <= queue[i].priority
                        /\ \A j \in 1..(i - 1) : queue[j].priority < queue[i].priority
         IN  <<queue[top]>> \o SortByPriority(Splice(queue, top))

\* removeStaleTask(): the tasks added 30 seconds ago or earlier, those up
\* to id stale, leave the queue
RemoveStaleTask(queue, stale) == SelectSeq(queue, LAMBDA item : item.id > stale)

\* the tick of the 5-second interval, optimizeResponsiveness(): updateMetrics(),
\* and with more than QueueThreshold tasks waiting optimizeQueueProcessing():
\* sort, enableParallelProcessing(), removeStaleTask()
OptimizeResponsiveness(stale) ==
    /\ queueLength' = Len(taskQueue)
    /\ IF Len(taskQueue) > QueueThreshold
       THEN \E queue \in {SortByPriority(taskQueue)} :
               IF ~isProcessing
               THEN LET batchSize == Min(3, Len(queue))
                    IN  /\ isProcessing' = TRUE
                        /\ taskQueue' = RemoveStaleTask(
                               SubSeq(queue, batchSize + 1, Len(queue)), stale)
                        /\ running' = running \cup {queue[i].id : i \in 1..batchSize}
                        /\ awaited' = {queue[i].id : i \in 1..batchSize}
                        /\ batchPc' = "awaiting"
               ELSE /\ taskQueue' = RemoveStaleTask(queue, stale)
                    /\ UNCHANGED <<isProcessing, running, awaited, batchPc>>
       ELSE UNCHANGED <<taskQueue, isProcessing, running, awaited, batchPc>>
    /\ UNCHANGED <<taskTimers, nextTask, notTask>>

\* new ResponsivenessOptimizer()
TaskInit ==
    /\ taskQueue = <<>>
    /\ isProcessing = FALSE
    /\ running = {}
    /\ awaited = {}
    /\ batchPc = "idle"
    /\ taskTimers = 0
    /\ nextTask = 1
    /\ queueLength = 0

\* ------------------------------------------------------- specifications

\* a component no operation of the behaviour touches: no request ever made,
\* no voice loaded
SynthIdle == SynthInit /\ hostAvailable
VoiceIdle == VoiceInit /\ voices = <<>>
DeviceIdle == DeviceInit /\ \A id \in DOMAIN deviceStates : deviceStates[id].status = "online"
RecognitionIdle == RecognitionInit /\ autoRestart
AssistantIdle == AssistantInit /\ minConfidence = 7
RestIdle == CustomInit /\ ConfigInit /\ EmitterInit /\ TaskInit
Idle == RecognitionIdle /\ AssistantIdle /\ LanguageIdle /\ RestIdle

Init == SynthInit /\ VoiceIdle /\ DeviceIdle /\ Idle

\* SpeechSynthesis: speak, stopSpeaking, the host's callbacks and the timer
Next ==
    \/ SpeakEmpty
    \/ \E priority \in Priorities : nextId <= MaxRequests /\ Speak(priority)
    \/ StopSpeaking
    \/ \E id \in Ids : OnEnd(id)
    \/ \E id \in Ids : OnError(id)
    \/ \E id \in Ids : Continue(id)
    \/ TimerFire

Spec == Init /\ [][Next]_vars

\* The same with fewer requests, for liveness: the host eventually delivers
\* the end or error callback of every utterance it was given, timers
\* eventually fire, microtasks eventually run.
FairNext ==
    \/ SpeakEmpty
    \/ \E priority \in Priorities : nextId <= FairRequests /\ Speak(priority)
    \/ StopSpeaking
    \/ \E id \in Ids : OnEnd(id)
    \/ \E id \in Ids : OnError(id)
    \/ \E id \in Ids : Continue(id)
    \/ TimerFire

FairSpec ==
    /\ Init
    /\ [][FairNext]_vars
    /\ WF_vars(\E id \in Ids : OnEnd(id) \/ OnError(id))
    /\ WF_vars(TimerFire)
    /\ WF_vars(\E id \in Ids : Continue(id))

\* Voice selection over every voice list and language tag
VoiceNext ==
    \/ \E vs \in VoiceLists : LoadVoices(vs)
    \/ \E lang \in LanguageTags : SelectVoice(lang)

VoiceSpecInit == SynthIdle /\ VoiceInit /\ DeviceIdle /\ Idle

VoiceSpec == VoiceSpecInit /\ [][VoiceNext]_vars

\* DeviceManager commanded on one of its lights, which may be removed and
\* added again, and on an id that is never registered
Targets == {"living_room-light", "attic-fan"}
Actions == {"turn_on", "turn_off", "dim", "brighten", "set_brightness", "open"}
Values == {-10, 0, 150}
Parameters ==
    {[x \in {} |-> 0]} \cup {[value |-> v] : v \in Values}
        \cup {[brightness |-> v] : v \in Values}

DeviceNext ==
    \/ \E id \in Targets, action \in Actions, parameters \in Parameters :
          ControlDevice(id, action, parameters)
    \/ \E online \in SUBSET DOMAIN deviceStates : DiscoverDevices(online)
    \/ AddDevice("living_room-light", "smart_light")
    \/ RemoveDevice("living_room-light")
    \/ Destroy

DeviceSpecInit == SynthIdle /\ VoiceIdle /\ DeviceInit /\ Idle

DeviceSpec == DeviceSpecInit /\ [][DeviceNext]_vars

\* DeviceManager over time: discovery ticks with some devices found and
\* some not, between a command to a light and devices added and removed
OnlineSets ==
    {two \cup four : two \in SUBSET {"living_room-light", "main-thermostat"},
                     four \in {{}, {"bedroom-light", "kitchen-light",
                                    "living_room-tv", "kitchen-speaker"}}}

DiscoveryNext ==
    \/ Tick
    \/ \E online \in OnlineSets : DiscoverDevices(online \cap DOMAIN deviceStates)
    \/ ControlDevice("living_room-light", "turn_off", NoParameters)
    \/ AddDevice("attic-fan", "fan")
    \/ RemoveDevice("kitchen-speaker")

DiscoverySpecInit == SynthIdle /\ VoiceIdle /\ DeviceIdle /\ Idle

DiscoverySpec == DiscoverySpecInit /\ [][DiscoveryNext]_vars

\* DeviceManager commanded on its thermostat
ThermostatActions == {"set_temperature", "set_value", "increase", "decrease", "turn_on"}
ThermostatValues == {-10, 0, 60, 150}
ThermostatParameters ==
    {[x \in {} |-> 0]} \cup {[value |-> v] : v \in ThermostatValues}
        \cup {[temperature |-> v] : v \in ThermostatValues}
        \cup {[value |-> 0, temperature |-> v] : v \in ThermostatValues}

ThermostatNext ==
    \/ \E action \in ThermostatActions, parameters \in ThermostatParameters :
          ControlDevice("main-thermostat", action, parameters)
    \/ \E online \in SUBSET DOMAIN deviceStates : DiscoverDevices(online)

ThermostatSpec == DeviceSpecInit /\ [][ThermostatNext]_vars

\* SpeechRecognition: the application's calls, the host's events and the
\* restart timer
RecognitionNext ==
    \/ \E supported \in BOOLEAN : Initialize(supported)
    \/ StartRecognition
    \/ StopRecognition
    \/ HostStart
    \/ HostEnd
    \/ \E isFinal \in BOOLEAN : HostResult(isFinal)
    \/ \E code \in ErrorCodes : HostError(code)
    \/ RestartTimerFire

RecognitionSpecInit ==
    /\ SynthIdle /\ VoiceIdle /\ DeviceIdle /\ RecognitionInit /\ AssistantIdle
    /\ LanguageIdle /\ RestIdle

RecognitionSpec == RecognitionSpecInit /\ [][RecognitionNext]_vars

\* The same for liveness: a pending restart timer eventually fires. Nothing
\* is assumed of the application or of the host.
FairRecognitionSpec ==
    /\ RecognitionSpecInit
    /\ [][RecognitionNext]_vars
    /\ WF_vars(RestartTimerFire)

\* SmartVoiceAssistant: recognized utterances of every confidence and
\* every processing result, start() and stop()
AssistantNext ==
    \/ \E confidence \in Confidences, lp \in LpResults, startFails \in BOOLEAN :
          HandleVoiceCommand(confidence, lp, startFails)
    \/ \E startFails \in BOOLEAN : AssistantStart(startFails)
    \/ AssistantStop

AssistantSpecInit ==
    /\ SynthIdle /\ VoiceIdle /\ DeviceIdle /\ RecognitionIdle /\ AssistantInit
    /\ LanguageIdle /\ RestIdle

AssistantSpec == AssistantSpecInit /\ [][AssistantNext]_vars

\* LanguageProcessing: processCommand on each command of the table
LanguageSpecInit ==
    /\ SynthIdle /\ VoiceIdle /\ DeviceIdle /\ RecognitionIdle /\ AssistantIdle
    /\ RestIdle
    /\ lpCommands \in {<<c>> : c \in Commands}
    /\ lpResults = <<>>

LanguageSpec == LanguageSpecInit /\ [][ProcessCommands]_vars

\* LanguageProcessing: processCommand on two commands, one after the other
ComparisonSpecInit ==
    /\ SynthIdle /\ VoiceIdle /\ DeviceIdle /\ RecognitionIdle /\ AssistantIdle
    /\ RestIdle
    /\ lpCommands \in {<<c, d>> : c \in ComparedCommands, d \in ComparedCommands}
    /\ lpResults = <<>>

ComparisonSpec == ComparisonSpecInit /\ [][ProcessCommands]_vars

\* LanguageProcessing with custom patterns: the tables changed between
\* calls, each call run one step at a time
CustomNext ==
    \/ \E intent \in CustomIntents : AddCustomPattern(intent, Lit(<<"l", "i", "g", "h", "t">>))
    \/ \E entityType \in CustomTypes, pattern \in CustomRegexes, global \in BOOLEAN :
          AddCustomEntity(entityType, pattern, global)
    \/ \E command \in CustomTexts : BeginProcessCommand(command)
    \/ Exec
    \/ Push

CustomSpecInit ==
    /\ SynthIdle /\ VoiceIdle /\ DeviceIdle /\ RecognitionIdle /\ AssistantIdle
    /\ LanguageIdle /\ CustomInit /\ ConfigInit /\ EmitterInit /\ TaskInit

\* The call is synchronous code: once begun, its next step is taken.
CustomSpec ==
    /\ CustomSpecInit
    /\ [][CustomNext]_vars
    /\ WF_vars(Exec)
    /\ WF_vars(Push)

\* ConfigManager: set, update, import, export and reset in every order
ConfigNext ==
    \/ \E path \in SetPaths, value \in SetValues : ConfigSet(path, value)
    \/ \E newConfig \in PartialConfigs : ConfigUpdate(newConfig)
    \/ \E configJson \in ImportTexts : ConfigImport(configJson)
    \/ RoundTrip
    \/ ConfigReset

ConfigSpecInit ==
    /\ SynthIdle /\ VoiceIdle /\ DeviceIdle /\ RecognitionIdle /\ AssistantIdle
    /\ LanguageIdle /\ CustomInit /\ ConfigInit /\ EmitterInit /\ TaskInit

ConfigSpec == ConfigSpecInit /\ [][ConfigNext]_vars

\* EventEmitter: listeners registered, removed and called in every order
EmitterNext ==
    \/ \E kind \in {"returns", "throws"}, once \in BOOLEAN : On(kind, once)
    \/ \E id \in 1..MaxListeners : Off(id)
    \/ Emit

EmitterSpecInit ==
    /\ SynthIdle /\ VoiceIdle /\ DeviceIdle /\ RecognitionIdle /\ AssistantIdle
    /\ LanguageIdle /\ CustomInit /\ ConfigInit /\ EmitterInit /\ TaskInit

EmitterSpec == EmitterSpecInit /\ [][EmitterNext]_vars

\* ResponsivenessOptimizer: tasks added, settling either way, the
\* continuation timer and the optimization interval, in every order
TaskNext ==
    \/ \E priority \in {1, 2} : AddTask(priority)
    \/ \E id \in 1..MaxTasks : TaskCompletes(id)
    \/ \E id \in 1..MaxTasks : TaskFails(id)
    \/ Finally
    \/ ContinuationTimer
    \/ \E stale \in 0..MaxTasks : OptimizeResponsiveness(stale)

TaskSpecInit ==
    /\ SynthIdle /\ VoiceIdle /\ DeviceIdle /\ RecognitionIdle /\ AssistantIdle
    /\ LanguageIdle /\ CustomInit /\ ConfigInit /\ EmitterInit /\ TaskInit

TaskSpec == TaskSpecInit /\ [][TaskNext]_vars

\* SmartVoiceAssistant over its recognizer: start(), stop(), the 'restart' command,
\* the events of both recognizers and the restart timer. The host delivers
\* 'start' to a started session and 'end' to a stopped one, and a pending
\* timer fires; no error is delivered.
RestartNext ==
    \/ StartAssistant
    \/ RestartAssistant
    \/ StopAssistant
    \/ HostStart
    \/ HostEnd
    \/ OldHostStart
    \/ OldHostEnd
    \/ RestartTimerFire

RestartSpecInit ==
    /\ SynthIdle /\ VoiceIdle /\ DeviceIdle /\ RecognitionInit /\ AssistantIdle
    /\ LanguageIdle /\ RestIdle

RestartSpec ==
    /\ RestartSpecInit
    /\ [][RestartNext]_vars
    /\ WF_vars(HostStart)
    /\ WF_vars(OldHostStart)
    /\ WF_vars(OldHostEnd)
    /\ WF_vars(RestartTimerFire)

\* ------------------------------------------------ SpeechSynthesis claims

QueuedIds == {speechQueue[i].id : i \in 1..Len(speechQueue)}
PlayedIds == {played[i].id : i \in 1..Len(played)}
Active == {i \in Ids : hostState[i] = "active"}

\* the requests dequeued after played[i], or still waiting in the queue
Later(i) == Range(speechQueue) \cup {played[j] : j \in (i + 1)..Len(played)}

\* C1: at most one utterance has been handed to the host and has neither
\* finished nor been cancelled.
SingleFlight == Cardinality(Active) <= 1

\* C2: of two requests that waited in the queue together, the one accepted
\* later with the strictly higher priority is dequeued first: no request is
\* dequeued while a higher-priority request accepted after it (and before
\* its dequeue) is still waiting or is dequeued later.
HigherPriorityFirst ==
    \A i \in 1..Len(played) : \A b \in Later(i) :
        ~(/\ b.id > played[i].id
          /\ played[i].accepted >= b.id
          /\ b.priority > played[i].priority)

\* C3: the pending queue is sorted by non-increasing priority.
QueueSorted ==
    \A i, j \in 1..Len(speechQueue) :
        i < j => speechQueue[i].priority >= speechQueue[j].priority

\* C4: requests of equal priority that wait in the queue together are
\* dequeued in the order of their speak() calls: no request is dequeued
\* while an equal-priority request accepted before it is still waiting or is
\* dequeued later.
FifoAmongEquals ==
    \A i \in 1..Len(played) : \A b \in Later(i) :
        ~(b.id < played[i].id /\ b.priority = played[i].priority)

\* three requests waited together behind a playing one, accepted in the order
\* a, c, b with a and b of equal priority and c of another, and all were played
FifoWitness ==
    \E i, j, k \in 1..Len(played) :
        /\ i < k
        /\ played[i].priority = played[k].priority
        /\ played[j].priority # played[i].priority
        /\ played[i].id < played[j].id /\ played[j].id < played[k].id
        /\ played[i].accepted >= played[k].id
        /\ played[j].accepted >= played[k].id

\* C5: right after stopSpeaking() the queue is empty and isPlaying is false,
\* and no request stopSpeaking() dropped from the queue is ever dequeued.
StopDiscards ==
    /\ lastOp = "stop" => (speechQueue = <<>> /\ ~isPlaying)
    /\ PlayedIds \cap discarded = {}

\* a drain timer scheduled before stopSpeaking() fired after it: only the
\* first request was ever played, the others were dropped
StopWitness ==
    /\ lastOp = "timer"
    /\ discarded # {}
    /\ Len(played) = 1
    /\ hostAvailable

\* C6: every request waiting in the queue is eventually dequeued or dropped
\* by stopSpeaking().
QueueDrains ==
    \A id \in Ids : (id \in QueuedIds) ~> (id \in PlayedIds \/ id \in discarded)

\* a host synthesis error ended an utterance while requests were waiting,
\* and the drain timer was scheduled
DrainWitness ==
    /\ lastOp = "error"
    /\ speechQueue # <<>>
    /\ timers > 0

\* ------------------------------------------------ voice selection claims

\* the candidate voices for a tag: those with exactly that tag when there
\* are any, otherwise those with the same primary subtag
Candidates(vs, lang) ==
    LET exact == {i \in 1..Len(vs) : vs[i].lang = lang}
    IN  IF exact # {} THEN exact
        ELSE {i \in 1..Len(vs) : PrimarySubtag(vs[i].lang) = PrimarySubtag(lang)}

\* C7: when a candidate voice for the requested tag is local, the voice
\* selected is a local candidate.
LocalVoicePreferred ==
    (language # <<>> /\ \E i \in Candidates(voices, language) : voices[i].localService)
        => /\ selected \in Candidates(voices, language)
           /\ voices[selected].localService

\* -------------------------------------------------- DeviceManager claims

Lights == {id \in DOMAIN devices : devices[id].type = "smart_light"}

\* C8: a controlDevice call on an id that is not registered, or on a device
\* whose state is not online, returns false and leaves both maps, with every
\* properties map, as they were.
RefusedControlChangesNothing ==
    [][(/\ lastCall'.op = "controlDevice"
        /\ \/ lastCall'.target \notin DOMAIN devices
           \/ deviceStates[lastCall'.target].status # "online")
       => (lastResult' = FALSE /\ devices' = devices /\ deviceStates' = deviceStates)]_vars

\* controlDevice has just been called on a registered device that is offline
RefusedControlWitness ==
    /\ lastCall.op = "controlDevice"
    /\ lastCall.target \in DOMAIN devices
    /\ deviceStates[lastCall.target].status = "offline"
    /\ lastResult = FALSE

\* C9: the brightness of every light is within [0,100].
BrightnessInRange ==
    \A id \in Lights : deviceStates[id].properties.brightness \in 0..100

\* C10: a light that got only dim and brighten commands since its default
\* state has a brightness within [0,100].
AdjustedBrightnessInRange ==
    \A id \in adjustedOnly : deviceStates[id].properties.brightness \in 0..100

\* a light was dimmed down to the floor by dim commands alone, the last one
\* asking for less than the floor
AdjustedWitness ==
    /\ lastCall = [op |-> "controlDevice", target |-> "living_room-light"]
    /\ lastResult
    /\ "living_room-light" \in adjustedOnly
    /\ deviceStates["living_room-light"].properties.brightness = 10

Thermostats == {id \in DOMAIN devices : devices[id].type = "thermostat"}

\* C11: the target of every thermostat is within [50,90].
ThermostatTargetInRange ==
    \A id \in Thermostats : deviceStates[id].properties.target \in 50..90

\* the thermostat was raised to the ceiling and a command on it succeeded there
ThermostatWitness ==
    /\ lastCall = [op |-> "controlDevice", target |-> "main-thermostat"]
    /\ lastResult
    /\ deviceStates["main-thermostat"].properties.target = 90

\* C12: a set_brightness command with parameters.value = v on an online light
\* leaves its brightness at min(100, max(0, v)).
SetBrightnessClamps ==
    [][\A v \in Values :
          (/\ Controllable("living_room-light")
           /\ ControlDevice("living_room-light", "set_brightness", [value |-> v]))
          => deviceStates'["living_room-light"].properties.brightness = Min(100, Max(0, v))]_vars

\* C13: a controlDevice call on a registered, online device emits exactly one
\* deviceControlled event, with that device's id and the success flag the
\* call returns.
OneEventPerControl ==
    (/\ lastCall.op = "controlDevice"
     /\ lastCall.target \in DOMAIN devices
     /\ deviceStates[lastCall.target].status = "online")
    => emitted = <<[name |-> "deviceControlled", deviceId |-> lastCall.target,
                    success |-> lastResult]>>

\* the handler of an online device reported an unsupported action, and the
\* event was emitted with success false
OneEventWitness ==
    /\ lastCall = [op |-> "controlDevice", target |-> "living_room-light"]
    /\ "living_room-light" \in DOMAIN devices
    /\ deviceStates["living_room-light"].status = "online"
    /\ ~lastResult
    /\ Len(emitted) = 1

\* C14: once destroy() has run (nothing else clears the discovery timer), the
\* timer does not tick and both maps are empty, whatever was called since.
DestroyIsTerminal ==
    ~discoveryInterval
        => (/\ lastCall.op # "discoverDevices"
            /\ DOMAIN devices = {}
            /\ DOMAIN deviceStates = {})

\* C15: after a discovery tick the status in every Device record equals the
\* status in its DeviceState.
DeviceStatusUpToDate ==
    lastCall.op = "discoverDevices"
        => \A id \in DOMAIN devices : devices[id].status = deviceStates[id].status


\* ---------------------------------------------- SpeechRecognition claims

\* the restart timer's callback invoked the host's start()
RestartedByTimer == recLast.op = "timer" /\ recLast.started

\* C16: permission errors are terminal. A host error 'audio-capture' or
\* 'not-allowed' emits 'error' on the bus, and from then until the next
\* explicit startRecognition() no restart timer is pending and the timer
\* does not invoke the host's start(), whatever the host delivers after it.
PermissionErrorsTerminal ==
    /\ (recLast.op = "onerror" /\ recLast.code \in PermissionCodes)
           => "error" \in recLast.emitted
    /\ fatal => (restartTimer = NoTimer /\ ~RestartedByTimer)

\* C17: retries are bounded by the error counter. A 'no-speech' or
\* 'network' error that arrives when errorCount had already reached
\* maxErrors, with no 'start' event in between, schedules no restart.
RetriesBounded ==
    (recLast.op = "onerror" /\ recLast.code \in TransientCodes /\ errorCount > maxErrors)
        => recLast.scheduled = NoTimer

\* C18: stopRecognition() stops for good. From its return until the next
\* explicit startRecognition() no restart timer is pending and the timer
\* does not invoke the host's start(), whatever the host delivers for the
\* session being stopped and whatever autoRestart is.
StopIsFinal == stopped => (restartTimer = NoTimer /\ ~RestartedByTimer)

\* C19: stopRecognition() is idempotent and leaves isRecognizing false:
\* right after any call of it, the first or a repeated one, from any
\* reachable state, isRecognizing is false.
StopLeavesNotRecognizing == recLast.op = "stopRecognition" => ~isRecognizing

\* C20: startRecognition() is a no-op when the component is uninitialized
\* or isRecognizing is true: the call does not invoke the host's start(),
\* emits nothing, and leaves isRecognizing, errorCount, the restart timer
\* and the host session as they were.
StartIsNoOp ==
    [][(StartRecognition /\ (~recognition \/ isRecognizing))
          => /\ ~recLast'.started
             /\ recLast'.emitted = {}
             /\ UNCHANGED <<isRecognizing, errorCount, restartTimeout,
                            restartTimer, hostRec>>]_vars

\* startRecognition() was called on a running session with a restart
\* pending, and did nothing
StartNoOpWitness ==
    /\ recLast = Step("startRecognition", "", FALSE, {}, NoTimer)
    /\ isRecognizing
    /\ hostRec = "running"
    /\ restartTimer # NoTimer

LowConfidenceStops ==
    [][\A confidence \in Confidences, lp \in LpResults, startFails \in BOOLEAN :
          (confidence < minConfidence /\ HandleVoiceCommand(confidence, lp, startFails))
              => /\ turn'.reached = {}
                 /\ turn'.spoken = <<"clarification">>
                 /\ UNCHANGED <<devices, deviceStates, lastCall>>]_vars

\* a turn with confidence 0.5 under the default minimum, after a turn that
\* did control a device
LowConfidenceWitness ==
    /\ turn = Turn("handleVoiceCommand", 5, {}, <<"clarification">>, "", FALSE)
    /\ minConfidence = 7
    /\ lastCall.op = "controlDevice"

\* C23: a turn never crashes. Whatever throws inside a turn whose
\* confidence is at or above the minimum (processCommand, or start() during
\* a 'restart' command), handleVoiceCommand does not throw and the last
\* utterance it handed to speak() is the apology.
TurnNeverCrashes ==
    (turn.op = "handleVoiceCommand" /\ turn.confidence >= minConfidence)
        => /\ ~turn.threw
           /\ turn.failure # "" =>
                 (turn.spoken # <<>> /\ turn.spoken[Len(turn.spoken)] = "apology")

\* the restart command stopped the active assistant and could not start it
\* again
CrashWitness ==
    /\ turn.op = "handleVoiceCommand"
    /\ turn.failure = "start"
    /\ "stopRecognition" \in turn.reached
    /\ turn.spoken = <<"apology">>
    /\ ~isActive

\* --------------------------------------------- LanguageProcessing claims

\* C24: processCommand on "turn on [the] <room> <device>", the device in
\* the singular or in the plural, gives intent device_control, action
\* turn_on, a device entity whose value contains the device word and a room
\* entity whose value is the room with its spaces replaced by underscores.
RoomAndDeviceRecognized ==
    \A i \in DOMAIN lpResults :
        \A article \in Articles, room \in Rooms, device \in DeviceWords :
            \A spoken \in {device, Plural(device)} :
                lpResults[i].originalText = Command(<<>>, TurnOn, article, room, spoken, <<>>)
                    => /\ lpResults[i].intent = "device_control"
                       /\ lpResults[i].action = "turn_on"
                       /\ \E e \in Range(lpResults[i].entities) :
                              e.type = "device" /\ Contains(e.value, device)
                       /\ \E e \in Range(lpResults[i].entities) :
                              e.type = "room" /\ e.value = ReplaceSpaces(Join(room))

\* some intent pattern matches the whole command
Entire(command) ==
    \E k \in DOMAIN IntentPatterns : \E p \in DOMAIN IntentPatterns[k].patterns :
        Match(IntentPatterns[k].patterns[p], command)
            = [start |-> 1, end |-> Len(command) + 1]

\* every match of an intent pattern in the command leaves some of it out
ProperOnly(command) ==
    \A k \in DOMAIN IntentPatterns : \A p \in DOMAIN IntentPatterns[k].patterns :
        LET match == Match(IntentPatterns[k].patterns[p], command)
        IN  match.start # 0 => match.end - match.start < Len(command)

\* C25: confidence ordering. A command that an intent pattern matches in
\* its entirety gets a strictly greater confidence than a command of which
\* every pattern match is a proper substring, and every confidence lies in
\* [0,1].
ConfidenceOrdered ==
    \A i \in DOMAIN lpResults :
        /\ AtMostOne(lpResults[i].confidence)
        /\ \A j \in DOMAIN lpResults :
              (Entire(Trim(lpCommands[i])) /\ ProperOnly(Trim(lpCommands[j])))
                  => Greater(lpResults[i].confidence, lpResults[j].confidence)

\* "turn on lights" and "maybe turn on lights please" were processed
ConfidenceWitness ==
    /\ lpCommands = <<Command(<<>>, TurnOn, <<>>, <<>>, <<"l", "i", "g", "h", "t", "s">>, <<>>),
                      Command(<<<<"m", "a", "y", "b", "e">>>>, TurnOn, <<>>, <<>>, <<"l", "i", "g", "h", "t", "s">>, <<<<"p", "l", "e", "a", "s", "e">>>>)>>
    /\ lpResults # <<>>
    /\ lpResults[1].intent = "device_control"
    /\ lpResults[2].intent = "device_control"
    /\ Entire(lpCommands[1])
    /\ ProperOnly(lpCommands[2])

\* C26: processCommand terminates and returns a result for every string,
\* also after addCustomPattern and addCustomEntity calls with arbitrary
\* regular expressions: a call that has begun reaches its return.
ProcessCommandTerminates == (lpPc = "exec") ~> (lpPc = "done")

\* -------------------------------------------------- ConfigManager claims

\* C27: import(export()) leaves a configuration deep-equal to the one before
\* export(), for every configuration set, update and import can reach.
RoundTripRestores == cfgLast.op = "roundtrip" => config = cfgLast.before

\* the keys of before that imported does not have keep their value in after,
\* at the top and inside every section imported has too
RECURSIVE Kept(_, _, _)
Kept(before, imported, after) ==
    \A key \in DOMAIN before.f :
        /\ key \notin KeysOf(imported) =>
               key \in DOMAIN after.f /\ after.f[key] = before.f[key]
        /\ key \in KeysOf(imported) /\ imported.f[key].k = "obj" /\ before.f[key].k = "obj" =>
               after.f[key].k = "obj" /\ Kept(before.f[key], imported.f[key], after.f[key])

\* C28: import() of a text that is no JSON throws the error 'Invalid
\* configuration JSON' and leaves the configuration as it was; import() of
\* JSON throws nothing and merges deeply: every key the imported object
\* does not have keeps its value.
ImportMergesOrRejects ==
    cfgLast.op = "import" =>
        IF JsonParse(cfgLast.text).ok
        THEN /\ ~cfgLast.threw
             /\ Kept(Obj(cfgLast.before), JsonParse(cfgLast.text).v, Obj(config))
        ELSE /\ cfgLast.threw
             /\ cfgLast.message = "Invalid configuration JSON"
             /\ config = cfgLast.before

\* a section imported with one of its two keys has been merged into a
\* configuration whose other key had been set
ImportWitness ==
    /\ cfgLast.op = "import"
    /\ ~cfgLast.threw
    /\ cfgLast.text = JsonStringify(Obj([speechSynthesis |-> Obj([volume |-> Num(5)])]))
    /\ cfgLast.before.speechSynthesis.k = "obj"
    /\ "rate" \in DOMAIN cfgLast.before.speechSynthesis.f
    /\ cfgLast.before.speechSynthesis.f.rate = Num(5)
    /\ config # cfgLast.before

\* the paths of the built-in defaults
DefaultPaths ==
    {<<"minConfidence">>, <<"speechSynthesis">>, <<"speechSynthesis", "rate">>,
     <<"speechSynthesis", "volume">>}

\* C39: reset() restores the built-in defaults: after reset(), get(p)
\* returns the built-in default value for every default path p.
ResetRestoresDefaults ==
    cfgLast.op = "reset" =>
        \A path \in DefaultPaths : ConfigGet(config, path) = ConfigGet(DefaultConfig, path)

\* --------------------------------------------------- EventEmitter claims

OnceAtMostOnce ==
    \A i \in 1..Len(emitLast.before) :
        emitLast.before[i].once => emitLast.before[i].id \notin emitLast.again

\* C38: emit invokes every listener registered when it is called exactly
\* once.
EmitInvokesAll ==
    emitLast.called =>
        /\ Len(emitLast.invoked) = Len(emitLast.before)
        /\ Range(emitLast.invoked) = {emitLast.before[i].id : i \in 1..Len(emitLast.before)}

\* ----------------------------------------- ResponsivenessOptimizer claims

\* C30: the task queue runs with bounded concurrency 3: at most 3 tasks
\* given to addTask have been started and have not settled.
AtMostThreeRunning == Cardinality(running) <= 3

\* C35: waiting tasks are started in descending priority order: when tasks
\* are started, no task that was added while a batch was in flight, and
\* that has a higher priority than one of the tasks started, is left waiting.
StartedByPriority ==
    [][\A low \in Range(taskQueue), high \in Range(taskQueue') :
           low.id \in running' \ running /\ high.during
               => high.priority <= low.priority]_vars

\* ------------------------------------------------ DeviceManager claims, 2

\* C36: a discovery tick changes only the status and lastSeen of existing
\* device states: the devices and every properties map stay, lastSeen
\* becomes the time of the tick for the devices marked online and stays for
\* those marked offline.
DiscoveryFrame ==
    [][(\E online \in SUBSET DOMAIN deviceStates : DiscoverDevices(online))
          => /\ devices' = devices
             /\ DOMAIN deviceStates' = DOMAIN deviceStates
             /\ \A id \in DOMAIN deviceStates :
                   /\ deviceStates'[id].properties = deviceStates[id].properties
                   /\ DOMAIN deviceStates'[id] = {"status", "properties", "lastSeen"}
                   /\ deviceStates'[id].status = "online"
                         => deviceStates'[id].lastSeen = now
                   /\ deviceStates'[id].status = "offline"
                         => deviceStates'[id].lastSeen = deviceStates[id].lastSeen]_vars

\* a discovery after time passed left a light that was turned off offline
\* with its old lastSeen and its properties, and refreshed a device it found
DiscoveryWitness ==
    /\ lastCall.op = "discoverDevices"
    /\ now > 0
    /\ deviceStates["living_room-light"].status = "offline"
    /\ deviceStates["living_room-light"].lastSeen < now
    /\ ~deviceStates["living_room-light"].properties.power
    /\ deviceStates["main-thermostat"].status = "online"
    /\ deviceStates["main-thermostat"].lastSeen = now
    /\ "attic-fan" \in DOMAIN deviceStates

\* C40: a successful dim never increases a light's brightness and a
\* successful brighten never decreases it.
DimAndBrightenMonotone ==
    [][\A parameters \in Parameters :
          /\ (/\ ControlDevice("living_room-light", "dim", parameters)
              /\ lastResult')
                => deviceStates'["living_room-light"].properties.brightness
                       <= deviceStates["living_room-light"].properties.brightness
          /\ (/\ ControlDevice("living_room-light", "brighten", parameters)
              /\ lastResult')
                => deviceStates'["living_room-light"].properties.brightness
                       >= deviceStates["living_room-light"].properties.brightness]_vars

\* ------------------------------------------- SpeechRecognition claims, 2

\* C31: after a 'network' error the restart uses the 5-second backoff: the
\* restart timer that next invokes the host's start() is the one of 5000 ms,
\* also when the host's 'end' event follows the error.
NetworkBackoffKept ==
    [][RestartTimerFire /\ sinceNetwork /\ recLast'.started
           => restartTimer = NetworkDelay]_vars

\* a session of either recognizer has fired 'start' and not ended
SessionRunning == hostRec = "running" \/ oldRec = "running"

\* C32: after the assistant handled 'restart' while active it is active, and
\* a recognition session is eventually running again, unless the assistant
\* is stopped first.
RestartResumes ==
    /\ [](turn.op = "restart" => isActive)
    /\ (turn.op = "restart") ~> (SessionRunning \/ turn.op # "restart")

\* ------------------------------------------- LanguageProcessing claims, 2

\* the places <<intent, pattern>> of the table whose pattern matches
AllMatches(command) ==
    {m \in {<<k, p>> : k \in DOMAIN IntentPatterns, p \in 1..8} :
        /\ m[2] \in DOMAIN IntentPatterns[m[1]].patterns
        /\ Match(IntentPatterns[m[1]].patterns[m[2]], command).start # 0}

ConfidenceAt(m, command) ==
    CalculatePatternConfidence(Match(IntentPatterns[m[1]].patterns[m[2]], command),
                               command)

\* the matches no other match exceeds
Highest(command) ==
    {m \in AllMatches(command) :
        \A n \in AllMatches(command) :
            ~Greater(ConfidenceAt(n, command), ConfidenceAt(m, command))}

\* m comes before n in table order
Before(m, n) == m[1] < n[1] \/ (m[1] = n[1] /\ m[2] <= n[2])

\* C33: intent extraction returns the match of the greatest confidence, the
\* first of them in table order, and intent 'unknown', action 'unknown' and
\* confidence 0 when no pattern matches.
HighestFirstMatch ==
    \A i \in DOMAIN lpResults :
        LET command == Trim(lpCommands[i])
            highest == Highest(command)
        IN  IF AllMatches(command) = {}
            THEN /\ lpResults[i].intent = "unknown"
                 /\ lpResults[i].action = "unknown"
                 /\ lpResults[i].confidence = Zero
            ELSE \E m \in highest :
                    /\ \A n \in highest : Before(m, n)
                    /\ lpResults[i].intent = IntentPatterns[m[1]].name
                    /\ lpResults[i].confidence = ConfidenceAt(m, command)

\* a command was processed in which patterns of two intents tie for the
\* greatest confidence, and one in which no pattern matches
HighestFirstWitness ==
    /\ \E i \in DOMAIN lpResults :
          \E m, n \in Highest(Trim(lpCommands[i])) : m[1] # n[1]
    /\ \E i \in DOMAIN lpResults : AllMatches(Trim(lpCommands[i])) = {}

\* C37: the host's start() is never invoked while a session is started or
\* a previous start() is pending: a step of startRecognition() or of the
\* restart timer that invokes start() finds the recognizer neither starting
\* nor running.
NoStartWhileStarted ==
    [][(StartRecognition \/ RestartTimerFire) /\ recLast'.started
           => hostRec \notin {"starting", "running"}]_vars

=============================================================================
